---- MODULE Spec2Model ----
(***************************************************************************)
(* Model of the agent control loop of hunterXCodingAgent: the action       *)
(* parser (clean_json), the task manager, the tool dispatch of the three   *)
(* run_agent variants (coding_agent.run_agent, MobileSurfAgent.run_agent,  *)
(* MobileWebAgent.run_agent) and sub-agent delegation.                     *)
(*                                                                         *)
(* Text is a sequence of symbols.  A symbol is one character ("{", "}",    *)
(* "[", "]", ":", ",", the double quote "q", a blank " ", a digit, the     *)
(* letter "c") or an atomic lexeme: a member of StrLex stands for a whole  *)
(* double-quoted string literal without braces or quotes in it (the symbol *)
(* "action" is the text "action" with its quotes), and "TC" stands for the *)
(* marker text TASK_COMPLETE:.                                             *)
(***************************************************************************)
EXTENDS Integers, Sequences, FiniteSets, TLC

VARIABLES
    raw,            \* clean_json: the raw model text handed to the parser
    parsed,         \* clean_json: outcome of the call
    ppc,            \* clean_json: "input" before the call, "parsed" after
    tasks,          \* task manager: the task list (TASKS / self.tasks)
    task_counter,   \* task manager: TASK_COUNTER / self.task_counter
    creates,        \* number of create_task calls made on the manager
    tres,           \* outcome of the last task manager call
    fs,             \* the working directory: path -> contents
    variant,        \* which run_agent runs: "coding", "surf" or "web"
    max_steps,      \* run_agent's step budget
    step,           \* the loop counter of run_agent
    pc,             \* position of the run: "start", "loop", "sub", "subdone", "returned", "raised"
    history,        \* the transcript of the run
    calls,          \* model calls made by run_agent so far
    ret,            \* what run_agent returned, or the exception that left it
    last,           \* what the latest iteration of run_agent did
    cur,            \* the iteration of run_agent that waits for its sub-agent
    psnap,          \* the parent's tasks, counter, files and transcript when it delegated
    subTools,       \* sub-agent: names in its tool registry
    subTasks,       \* sub-agent: its own task list
    subCounter,     \* sub-agent: its own task counter
    subHist,        \* sub-agent: transcript of run_focused_task
    subStep,        \* sub-agent: loop counter of run_focused_task
    subCalls,       \* sub-agent: model calls made
    subLast,        \* sub-agent: what its latest iteration did
    subRet,         \* sub-agent: what run_focused_task returned
    qissues,        \* critic score: the list of issues that is scored
    qscore,         \* critic score: outcome of _calculate_quality_score on qissues
    qprev,          \* critic score: the list and its score before an issue was added
    ccode,          \* critic: the code under critique, a sequence of line kinds
    cpath,          \* critic: the file_path given with it
    crep,           \* critic: per CodeCritic instance, outcome of its latest critique of ccode
    ccount,         \* critic: per CodeCritic instance, critiques performed so far
    bcmd,           \* run_bash: the cmd argument, a JSON value
    bworld,         \* run_bash: what subprocess.run does with a command it is given
    bproc,          \* run_bash: commands handed to subprocess.run
    bres,           \* run_bash: the variant called and the outcome of the call
    dtasks,         \* analyze_prd_and_delegate: sub_tasks, the agent types to deploy
    dnext,          \* analyze_prd_and_delegate: position in sub_tasks of the for loop
    drunning,       \* analyze_prd_and_delegate: agent types whose loop is running
    dresults,       \* analyze_prd_and_delegate: results, one per sub-task deployed
    runs,            \* invocations of run_agent that have ended in this process
    wdir,           \* reflection: the working directory, file name to contents
    wfocus,         \* reflection: the focus asked for
    wcritic,        \* reflection: whether a code critic is wired in
    wreport,        \* reflection: the code quality section of the last report
    ifile,          \* improvement: the file at file_path on disk
    icontent,       \* improvement: file_content, the accepted version
    iscore,         \* improvement: current_score
    iissues,        \* improvement: the issues of current_critique
    iiter,          \* improvement: iterations of the loop entered so far
    irewrites,      \* improvement: rewrites asked of the model so far
    imax,           \* improvement: max_iterations
    ipc,            \* improvement: "start", "loop" or "done"
    iret            \* improvement: what the call returned

parseVars == <<raw, parsed, ppc>>
taskVars == <<tasks, task_counter, creates, tres>>
loopVars == <<variant, max_steps, step, pc, history, calls, ret, last>>
subVars == <<cur, psnap, subTools, subTasks, subCounter, subHist, subStep, subCalls,
             subLast, subRet>>
scoreVars == <<qissues, qscore, qprev>>
criticVars == <<ccode, cpath, crep, ccount>>
bashVars == <<bcmd, bworld, bproc, bres>>
prdVars == <<dtasks, dnext, drunning, dresults>>
runVars == <<runs>>
qualVars == <<wdir, wfocus, wcritic, wreport>>
improveVars == <<ifile, icontent, iscore, iissues, iiter, irewrites, imax, ipc, iret>>
auxVars == <<scoreVars, criticVars, bashVars, prdVars, runVars, qualVars, improveVars>>
vars == <<raw, parsed, ppc, tasks, task_counter, creates, tres, fs, variant, max_steps,
          step, pc, history, calls, ret, last, cur, psnap, subTools, subTasks,
          subCounter, subHist, subStep, subCalls, subLast, subRet, auxVars>>

(***************************************************************************)
(* Bounds of the model.                                                    *)
(***************************************************************************)
MaxLen == 6
MaxTasks == 3
MaxSteps == 2
SubBudget == 2
MaxIssues == 4
MaxLines == 3
MaxCritiques == 2
MaxCmd == 3
MaxRuns == 1

(***************************************************************************)
(* Program constants.                                                      *)
(***************************************************************************)
ReflectEvery == 10
FactoryReflectEvery == 8
ExcerptLen == 200

(***************************************************************************)
(* Decoded JSON values, tagged by type.                                    *)
(***************************************************************************)
Str(s) == [t |-> "str", v |-> s]
Num(n) == [t |-> "num", v |-> n]
Obj(f) == [t |-> "obj", v |-> f]
Arr(a) == [t |-> "arr", v |-> a]
EmptyFn == [k \in {} |-> 0]

StrLex == {"action", "args", "result", "DONE", "ERROR", "x", "nope",
           "read_file", "write_file", "create_task", "complete_task",
           "update_task", "list_tasks", "create_specialized_sub_agent",
           "run_all_tests",
           "path", "contents", "description", "priority", "task_id", "status",
           "agent_type", "task_description", "allowed_tools", "context",
           "pending", "in_progress", "completed", "medium", "bogus"}
Digits == {"1", "2", "3"}

DigitVal(d) == CASE d = "1" -> 1 [] d = "2" -> 2 [] d = "3" -> 3

(***************************************************************************)
(* json.loads, on symbol sequences (positions are 1-based here).           *)
(***************************************************************************)
Fail == [ok |-> FALSE, val |-> Num(0), nxt |-> 0]
Ok(v, n) == [ok |-> TRUE, val |-> v, nxt |-> n]

RECURSIVE SkipWs(_, _)
SkipWs(s, i) ==
    IF i <= Len(s) /\ s[i] = " " THEN SkipWs(s, i + 1) ELSE i

\* index of the closing quote of a string literal whose body starts at i, 0 if none
RECURSIVE ScanString(_, _)
ScanString(s, i) ==
    IF i > Len(s) THEN 0
    ELSE IF s[i] = "q" THEN i
    ELSE IF s[i] \in StrLex THEN 0
    ELSE ScanString(s, i + 1)

\* index after the run of digits that starts at i
RECURSIVE ScanDigits(_, _)
ScanDigits(s, i) ==
    IF i <= Len(s) /\ s[i] \in Digits THEN ScanDigits(s, i + 1) ELSE i

RECURSIVE DecimalValue(_)
DecimalValue(ds) ==
    IF ds = <<>> THEN 0
    ELSE 10 * DecimalValue(SubSeq(ds, 1, Len(ds) - 1)) + DigitVal(ds[Len(ds)])

RECURSIVE ParseValue(_, _)
RECURSIVE ParseMembers(_, _, _)
RECURSIVE ParseElements(_, _, _)

ParseString(s, j) ==
    IF j > Len(s) THEN Fail
    ELSE IF s[j] \in StrLex THEN Ok(Str(<<s[j]>>), j + 1)
    ELSE IF s[j] = "q"
         THEN LET c == ScanString(s, j + 1)
              IN  IF c = 0 THEN Fail ELSE Ok(Str(SubSeq(s, j + 1, c - 1)), c + 1)
         ELSE Fail

ParseValue(s, i) ==
    LET j == SkipWs(s, i)
    IN  IF j > Len(s) THEN Fail
        ELSE IF s[j] = "{"
             THEN LET k == SkipWs(s, j + 1)
                  IN  IF k <= Len(s) /\ s[k] = "}"
                      THEN Ok(Obj(EmptyFn), k + 1)
                      ELSE ParseMembers(s, k, EmptyFn)
        ELSE IF s[j] = "["
             THEN LET k == SkipWs(s, j + 1)
                  IN  IF k <= Len(s) /\ s[k] = "]"
                      THEN Ok(Arr(<<>>), k + 1)
                      ELSE ParseElements(s, k, <<>>)
        ELSE IF s[j] \in Digits
             THEN LET e == ScanDigits(s, j)
                  IN  Ok(Num(DecimalValue(SubSeq(s, j, e - 1))), e)
        ELSE ParseString(s, j)

\* members of an object from position i on; a repeated key keeps its last value
ParseMembers(s, i, acc) ==
    LET key == ParseString(s, SkipWs(s, i))
    IN  IF ~key.ok THEN Fail
        ELSE LET c == SkipWs(s, key.nxt)
             IN  IF c > Len(s) \/ s[c] # ":" THEN Fail
                 ELSE LET val == ParseValue(s, c + 1)
                      IN  IF ~val.ok THEN Fail
                          ELSE LET d == SkipWs(s, val.nxt)
                                   acc2 == (key.val.v :> val.val) @@ acc
                               IN  IF d > Len(s) THEN Fail
                                   ELSE IF s[d] = "}" THEN Ok(Obj(acc2), d + 1)
                                   ELSE IF s[d] = "," THEN ParseMembers(s, d + 1, acc2)
                                   ELSE Fail

ParseElements(s, i, acc) ==
    LET val == ParseValue(s, i)
    IN  IF ~val.ok THEN Fail
        ELSE LET d == SkipWs(s, val.nxt)
                 acc2 == Append(acc, val.val)
             IN  IF d > Len(s) THEN Fail
                 ELSE IF s[d] = "]" THEN Ok(Arr(acc2), d + 1)
                 ELSE IF s[d] = "," THEN ParseElements(s, d + 1, acc2)
                 ELSE Fail

\* json.loads(s): one value, blanks around it, nothing else
JsonLoads(s) ==
    LET r == ParseValue(s, 1)
    IN  IF r.ok /\ SkipWs(s, r.nxt) > Len(s) THEN r ELSE Fail

(***************************************************************************)
(* str.find / str.rfind (0-based, -1 when absent) and slicing raw[a:b] for *)
(* 0 <= a, 0 <= b.                                                         *)
(***************************************************************************)
Find(s, ch) ==
    IF \E i \in 1..Len(s) : s[i] = ch
    THEN (CHOOSE i \in 1..Len(s) : s[i] = ch /\ \A k \in 1..(i - 1) : s[k] # ch) - 1
    ELSE -1

\* a search that stops at the first occurrence
FirstOccurrence(s, ch) == Find(s, ch)

RFind(s, ch) ==
    IF \E i \in 1..Len(s) : s[i] = ch
    THEN (CHOOSE i \in 1..Len(s) : s[i] = ch /\ \A k \in (i + 1)..Len(s) : s[k] # ch) - 1
    ELSE -1

Slice(s, a, b) == SubSeq(s, a + 1, IF b > Len(s) THEN Len(s) ELSE b)

(***************************************************************************)
(* clean_json.  The try body either yields the decoded value or raises;    *)
(* the handler turns every exception into the ERROR sentinel.              *)
(***************************************************************************)
Returned(v) == [exc |-> "none", val |-> v]
Raised(e) == [exc |-> e, val |-> Num(0)]

ErrorSentinel(e) ==
    Obj((<<"action">> :> Str(<<"ERROR">>))
        @@ (<<"args">> :> Obj((<<"message">> :> Str(<<"Failed to parse JSON", e>>)))))

Decoded(d) == IF d.ok THEN Returned(d.val) ELSE Raised("JSONDecodeError")

CleanJsonSlice(r, start, end) ==
    IF start = -1 \/ end = 0 THEN Raised("ValueError: No JSON found")
    ELSE Decoded(JsonLoads(Slice(r, start, end)))

CleanJsonBody(r) == CleanJsonSlice(r, Find(r, "{"), RFind(r, "}") + 1)

\* a handler for ValueError alone
ValueErrorHandler(b) ==
    IF b.exc = "ValueError: No JSON found" THEN Returned(ErrorSentinel(b.exc)) ELSE b

\* except Exception as e: return the sentinel
CleanJsonHandler(b) ==
    IF b.exc = "none" THEN b ELSE Returned(ErrorSentinel(b.exc))

clean_json(r) == CleanJsonHandler(CleanJsonBody(r))

(***************************************************************************)
(* Task manager (TaskManager, the module-level TASKS of coding_agent and   *)
(* the task methods of MobileSurfAgent are the same code).  Arguments are  *)
(* decoded JSON values; results are Python strings, modelled as Str of a   *)
(* tuple that starts with the fixed text of the message.                   *)
(***************************************************************************)
ValidStatuses == {<<"pending">>, <<"in_progress">>, <<"completed">>}

\* int(x): a digit string or a number converts, any other string raises
\* ValueError, a list or an object raises TypeError
IntOf(x) ==
    IF x.t = "num" THEN Returned(x.v)
    ELSE IF x.t = "str"
         THEN IF x.v # <<>> /\ \A k \in 1..Len(x.v) : x.v[k] \in Digits
              THEN Returned(DecimalValue(x.v))
              ELSE Raised("ValueError")
         ELSE Raised("TypeError")

\* position of the first task with the given id, 0 if there is none
TaskIndex(ts, n) ==
    IF \E k \in 1..Len(ts) : ts[k].id = n
    THEN CHOOSE k \in 1..Len(ts) : ts[k].id = n /\ \A m \in 1..(k - 1) : ts[m].id # n
    ELSE 0

TaskOut(ts, ctr, out) == [tasks |-> ts, counter |-> ctr, out |-> out]

\* a create_task that does not advance the counter
create_task_stale(ts, ctr, description, priority) ==
    TaskOut(Append(ts, [id |-> ctr + 1, description |-> description,
                        status |-> <<"pending">>, priority |-> priority]),
            ctr, Returned(Str(<<"Created task #", ctr + 1, description>>)))

create_task(ts, ctr, description, priority) ==
    LET n == ctr + 1
        task == [id |-> n, description |-> description,
                 status |-> <<"pending">>, priority |-> priority]
    IN  TaskOut(Append(ts, task), n,
                Returned(Str(<<"Created task #", n, description>>)))

CountStatus(ts, st) == Cardinality({k \in 1..Len(ts) : ts[k].status = st})

list_tasks(ts, ctr) ==
    IF ts = <<>> THEN TaskOut(ts, ctr, Returned(Str(<<"No tasks created yet">>)))
    ELSE TaskOut(ts, ctr,
                 Returned(Str(<<"Current Tasks:",
                                [k \in 1..Len(ts) |-> <<ts[k].id, ts[k].description, ts[k].status>>],
                                CountStatus(ts, <<"pending">>),
                                CountStatus(ts, <<"in_progress">>),
                                CountStatus(ts, <<"completed">>)>>)))

\* task_id_int = int(task_id) and the search of the list: the position of the
\* task (0 when no task has that id), or the exception int() raised
Lookup(ts, task_id, n) ==
    IF n.exc # "none" THEN n ELSE Returned(TaskIndex(ts, n.val))

\* the handler is for ValueError alone: any other exception leaves the function
CompleteAt(ts, ctr, task_id, k) ==
    IF k.exc = "ValueError"
    THEN TaskOut(ts, ctr, Returned(Str(<<"ERROR: Invalid task ID", task_id>>)))
    ELSE IF k.exc # "none" THEN TaskOut(ts, ctr, Raised(k.exc))
    ELSE IF k.val = 0
    THEN TaskOut(ts, ctr, Returned(Str(<<"ERROR: Task not found", task_id>>)))
    ELSE TaskOut([ts EXCEPT ![k.val].status = <<"completed">>], ctr,
                 Returned(Str(<<"Completed task #", task_id, ts[k.val].description>>)))

complete_task(ts, ctr, task_id) ==
    CompleteAt(ts, ctr, task_id, Lookup(ts, task_id, IntOf(task_id)))

UpdateAt(ts, ctr, task_id, status, k) ==
    IF k.exc = "ValueError"
    THEN TaskOut(ts, ctr, Returned(Str(<<"ERROR: Invalid task ID", task_id>>)))
    ELSE IF k.exc # "none" THEN TaskOut(ts, ctr, Raised(k.exc))
    ELSE IF k.val = 0
    THEN TaskOut(ts, ctr, Returned(Str(<<"ERROR: Task not found", task_id>>)))
    ELSE TaskOut([ts EXCEPT ![k.val].status = status.v], ctr,
                 Returned(Str(<<"Updated task #", task_id, ts[k.val].status, status.v>>)))

update_task(ts, ctr, task_id, status) ==
    IF ~(status.t = "str" /\ status.v \in ValidStatuses)
    THEN TaskOut(ts, ctr, Returned(Str(<<"ERROR: Invalid status", status>>)))
    ELSE UpdateAt(ts, ctr, task_id, status, Lookup(ts, task_id, IntOf(task_id)))

(***************************************************************************)
(* File tools.  The working directory is a function from paths to file     *)
(* contents (both symbol sequences).                                       *)
(***************************************************************************)
ToolOut(ts, ctr, f, out) == [tasks |-> ts, counter |-> ctr, fs |-> f, out |-> out]

read_file(f, path) ==
    IF path.t = "str" /\ path.v \in DOMAIN f
    THEN Returned(Str(f[path.v]))
    ELSE Returned(Str(<<"ERROR:", "cannot read", path>>))

\* the file is opened for writing before f.write(contents) can fail
write_file_fs(f, path, contents) ==
    IF path.t # "str" THEN f
    ELSE IF contents.t = "str" THEN (path.v :> contents.v) @@ f
    ELSE (path.v :> <<>>) @@ f

write_file(f, path, contents) ==
    IF path.t = "str" /\ contents.t = "str"
    THEN Returned(Str(<<"Successfully wrote", Len(contents.v), path.v>>))
    ELSE Returned(Str(<<"ERROR:", "cannot write", path>>))

reflect_and_assess(ts, ctr, f) ==
    Str(<<"REFLECTION AND ASSESSMENT", list_tasks(ts, ctr).out.val, DOMAIN f>>)

(***************************************************************************)
(* Tool registries and the call TOOLS[tool_name] with args as keywords.                  *)
(***************************************************************************)
CoreTools == {"read_file", "write_file", "create_task", "list_tasks",
              "complete_task", "update_task"}
DelegateTool == "create_specialized_sub_agent"

Registry(v) ==
    IF v = "coding" THEN CoreTools
    ELSE CoreTools \cup {DelegateTool, "run_all_tests"}

Required(name) ==
    CASE name = "read_file" -> {<<"path">>}
      [] name = "write_file" -> {<<"path">>, <<"contents">>}
      [] name = "create_task" -> {<<"description">>}
      [] name = "complete_task" -> {<<"task_id">>}
      [] name = "update_task" -> {<<"task_id">>, <<"status">>}
      [] name = DelegateTool ->
            {<<"agent_type">>, <<"task_description">>, <<"allowed_tools">>, <<"context">>}
      [] OTHER -> {}

Optional(name) ==
    CASE name = "create_task" -> {<<"priority">>}
      [] OTHER -> {}

\* the keyword call binds: args is a mapping whose keys fit the signature
Binds(name, args) ==
    /\ args.t = "obj"
    /\ Required(name) \subseteq DOMAIN args.v
    /\ DOMAIN args.v \subseteq (Required(name) \cup Optional(name))

\* the call of one tool on the state (tasks, counter, files) of the agent it is bound to
CallTool(name, args, ts, ctr, f) ==
    IF ~Binds(name, args) THEN ToolOut(ts, ctr, f, Raised("TypeError"))
    ELSE CASE name = "read_file" ->
                ToolOut(ts, ctr, f, read_file(f, args.v[<<"path">>]))
           [] name = "write_file" ->
                ToolOut(ts, ctr,
                        write_file_fs(f, args.v[<<"path">>], args.v[<<"contents">>]),
                        write_file(f, args.v[<<"path">>], args.v[<<"contents">>]))
           [] name = "create_task" ->
                LET r == create_task(ts, ctr, args.v[<<"description">>],
                                     IF <<"priority">> \in DOMAIN args.v
                                     THEN args.v[<<"priority">>] ELSE Str(<<"medium">>))
                IN  ToolOut(r.tasks, r.counter, f, r.out)
           [] name = "list_tasks" ->
                ToolOut(ts, ctr, f, list_tasks(ts, ctr).out)
           [] name = "complete_task" ->
                LET r == complete_task(ts, ctr, args.v[<<"task_id">>])
                IN  ToolOut(r.tasks, r.counter, f, r.out)
           [] name = "update_task" ->
                LET r == update_task(ts, ctr, args.v[<<"task_id">>], args.v[<<"status">>])
                IN  ToolOut(r.tasks, r.counter, f, r.out)
           [] OTHER ->
                ToolOut(ts, ctr, f, Returned(Str(<<"Test results">>)))

\* a dispatch without the handler
Unhandled(r) == r

\* try: result = TOOLS[tool_name] with args as keywords  except Exception as e: result = "Tool execution error: ..."
DispatchHandler(r) ==
    IF r.out.exc = "none" THEN r
    ELSE ToolOut(r.tasks, r.counter, r.fs,
                 Returned(Str(<<"Tool execution error:", r.out.exc>>)))

Dispatch(name, args, ts, ctr, f) == DispatchHandler(CallTool(name, args, ts, ctr, f))

(***************************************************************************)
(* One iteration of run_agent, from the model's raw response to the        *)
(* transcript entries it appends.  kind is what the iteration came to:     *)
(* "invalid" (no 'action' key), "parse_error", "done", "unknown", "exec",  *)
(* "delegate" (the tool starts a sub-agent run) or "raise" (an exception   *)
(* leaves run_agent).                                                      *)
(***************************************************************************)
Entry(role, content) == [role |-> role, content |-> content]

IsStr(a, s) == a.t = "str" /\ a.v = <<s>>
Hashable(a) == a.t \in {"str", "num"}
InRegistry(a, reg) == a.t = "str" /\ Len(a.v) = 1 /\ a.v[1] \in reg

StepOut(kind, tool, entries, ts, ctr, f, r) ==
    [kind |-> kind, tool |-> tool, entries |-> entries,
     tasks |-> ts, counter |-> ctr, fs |-> f, ret |-> r]

NoRet == Returned(Str(<<>>))

ReflectTools == {"load_prd", "mark_entity_progress", "mark_workflow_progress",
                 "mark_component_progress", "mark_deployment_progress",
                 "run_all_tests", "setup_jest", "setup_playwright",
                 "deploy_full_surf_stack", "trigger_railway_deployment",
                 "create_railway_domain"}

should_reflect(v, stepNo, tool) ==
    /\ v # "coding"
    /\ \/ (stepNo + 1) % ReflectEvery = 0
       \/ v = "surf" /\ tool \in ReflectTools

\* the entries that follow an executed tool: its result and, when the variant asks
\* for it, a reflection
ExecEntries(v, stepNo, tool, resp, result, ts, ctr, f) ==
    <<Entry("assistant", resp), Entry("tool", result.v)>>
    \o (IF should_reflect(v, stepNo, tool)
        THEN <<Entry("tool", <<"REFLECTION:", reflect_and_assess(ts, ctr, f)>>)>>
        ELSE <<>>)

\* what the action's missing 'action' key does: the mobile variants check for it,
\* coding_agent subscripts the dict
MissingActionKey(v, resp, ts, ctr, f) ==
    IF v = "coding"
    THEN StepOut("raise", "", <<>>, ts, ctr, f, Raised("KeyError"))
    ELSE StepOut("invalid", "",
                 <<Entry("assistant", resp),
                   Entry("tool", <<"Response must be valid JSON with 'action' field.">>)>>,
                 ts, ctr, f, NoRet)

\* a sub-agent registry that keeps every tool of the parent
WholeRegistry(allowed, reg) == Returned(reg)

\* names a sub-agent's registry keeps: those of allowed_tools that the parent has
SubRegistry(allowed, reg) ==
    IF allowed.t = "arr"
    THEN IF \E k \in 1..Len(allowed.v) : ~Hashable(allowed.v[k])
         THEN Raised("TypeError")
         ELSE Returned({n \in reg : \E k \in 1..Len(allowed.v) : IsStr(allowed.v[k], n)})
    ELSE IF allowed.t = "obj"
         THEN Returned({n \in reg : <<n>> \in DOMAIN allowed.v})
    ELSE IF allowed.t = "str" THEN Returned({})
    ELSE Raised("TypeError")

\* create_specialized_sub_agent up to the point where a sub-agent would run:
\* "run" when a sub-agent starts, otherwise the string the tool returns
Delegation(v, args, reg) ==
    IF v = "web"
    THEN [run |-> FALSE, tools |-> {},
          out |-> Str(<<"ERROR creating", args.v[<<"agent_type">>], "TypeError">>)]
    ELSE LET r == SubRegistry(args.v[<<"allowed_tools">>], reg)
         IN  IF r.exc = "none"
             THEN [run |-> TRUE, tools |-> r.val, out |-> Str(<<>>)]
             ELSE [run |-> FALSE, tools |-> {},
                   out |-> Str(<<"ERROR creating", args.v[<<"agent_type">>], r.exc>>)]

\* what follows the dispatch of a tool; an exception that the dispatch did not
\* turn into a result leaves run_agent
AfterDispatch(v, stepNo, name, resp, r) ==
    IF r.out.exc # "none"
    THEN StepOut("raise", name, <<>>, r.tasks, r.counter, r.fs, Raised(r.out.exc))
    ELSE StepOut("exec", name,
                 ExecEntries(v, stepNo, name, resp, r.out.val, r.tasks, r.counter, r.fs),
                 r.tasks, r.counter, r.fs, NoRet)

AfterDelegation(v, stepNo, name, resp, d, ts, ctr, f) ==
    IF d.run
    THEN StepOut("delegate", name, <<>>, ts, ctr, f, NoRet)
    ELSE StepOut("exec", name, ExecEntries(v, stepNo, name, resp, d.out, ts, ctr, f),
                 ts, ctr, f, NoRet)

\* the tool call of an iteration
RunTool(v, stepNo, name, args, resp, ts, ctr, f) ==
    IF name = DelegateTool /\ Binds(name, args)
    THEN AfterDelegation(v, stepNo, name, resp, Delegation(v, args, Registry(v)), ts, ctr, f)
    ELSE AfterDispatch(v, stepNo, name, resp, Dispatch(name, args, ts, ctr, f))

ParseErrorOutcome(resp, ts, ctr, f) ==
    StepOut("parse_error", "",
            <<Entry("assistant", resp),
              Entry("tool", <<"JSON parsing failed. Please provide valid JSON.">>)>>,
            ts, ctr, f, NoRet)

\* a DONE branch that records the exchange in the transcript before it returns
DoneRecorded(action, resp, ts, ctr, f) ==
    [kind |-> "done", tool |-> "",
     entries |-> <<[role |-> "assistant", content |-> resp]>>,
     tasks |-> ts, counter |-> ctr, fs |-> f,
     ret |-> Returned(IF <<"result">> \in DOMAIN action.v
                      THEN action.v[<<"result">>]
                      ELSE Str(<<"Task completed.">>))]

\* action == "DONE": the result is returned, nothing is appended
DoneOutcome(action, resp, ts, ctr, f) ==
    StepOut("done", "", <<>>, ts, ctr, f,
            Returned(IF <<"result">> \in DOMAIN action.v
                     THEN action.v[<<"result">>]
                     ELSE Str(<<"Task completed.">>)))

\* an unknown-tool branch whose message leaves the requested name out
UnknownUnnamed(a, reg, resp, ts, ctr, f) ==
    [kind |-> "unknown", tool |-> "",
     entries |-> <<[role |-> "assistant", content |-> resp],
                   [role |-> "tool", content |-> <<"Unknown tool:", "Available:", reg>>]>>,
     tasks |-> ts, counter |-> ctr, fs |-> f, ret |-> NoRet]

\* tool_name not in TOOLS, for a name the dict lookup can hash
UnknownToolOutcome(a, reg, resp, ts, ctr, f) ==
    StepOut("unknown", "",
            <<Entry("assistant", resp),
              Entry("tool", <<"Unknown tool:", a, "Available:", reg>>)>>,
            ts, ctr, f, NoRet)

ArgsOf(action) ==
    IF <<"args">> \in DOMAIN action.v THEN action.v[<<"args">>] ELSE Obj(EmptyFn)

\* the branches of the loop body on the value a of the action's 'action' key
ActionBranch(action, a, v, resp, stepNo, ts, ctr, f) ==
    IF IsStr(a, "ERROR") THEN ParseErrorOutcome(resp, ts, ctr, f)
    ELSE IF IsStr(a, "DONE") THEN DoneOutcome(action, resp, ts, ctr, f)
    ELSE IF ~Hashable(a)
    THEN StepOut("raise", "", <<>>, ts, ctr, f, Raised("TypeError"))
    ELSE IF ~InRegistry(a, Registry(v))
    THEN UnknownToolOutcome(a, Registry(v), resp, ts, ctr, f)
    ELSE RunTool(v, stepNo, a.v[1], ArgsOf(action), resp, ts, ctr, f)

AgentStepOn(action, v, resp, stepNo, ts, ctr, f) ==
    IF <<"action">> \notin DOMAIN action.v
    THEN MissingActionKey(v, resp, ts, ctr, f)
    ELSE ActionBranch(action, action.v[<<"action">>], v, resp, stepNo, ts, ctr, f)

AgentStep(v, resp, stepNo, ts, ctr, f) ==
    AgentStepOn(clean_json(resp).val, v, resp, stepNo, ts, ctr, f)

MaxStepsMessage(n) == Returned(Str(<<"Max steps reached without completion.", n>>))

(***************************************************************************)
(* One iteration of run_focused_task, the loop of a sub-agent.  kind is    *)
(* "complete" (the marker TASK_COMPLETE: is in the text), "invalid",       *)
(* "unavailable", "exec" or "error" (the method's own handler returns).    *)
(***************************************************************************)
HasMarker(r) == \E i \in 1..Len(r) : r[i] = "TC"

RECURSIVE RemoveMarker(_)
RemoveMarker(r) ==
    IF r = <<>> THEN <<>>
    ELSE IF Head(r) = "TC" THEN RemoveMarker(Tail(r))
    ELSE <<Head(r)>> \o RemoveMarker(Tail(r))

RECURSIVE Strip(_)
Strip(r) ==
    IF r = <<>> THEN <<>>
    ELSE IF Head(r) = " " THEN Strip(Tail(r))
    ELSE IF r[Len(r)] = " " THEN Strip(SubSeq(r, 1, Len(r) - 1))
    ELSE r

\* what follows the dispatch of a sub-agent's tool; an exception that the dispatch
\* did not turn into a result reaches the handler of run_focused_task
SubAfterDispatch(name, resp, r) ==
    IF r.out.exc # "none"
    THEN StepOut("error", name, <<>>, r.tasks, r.counter, r.fs,
                 Returned(Str(<<"ERROR in focused task execution:", r.out.exc>>)))
    ELSE StepOut("exec", name,
                 <<Entry("assistant", resp), Entry("tool", r.out.val.v)>>,
                 r.tasks, r.counter, r.fs, NoRet)

SubActionBranch(action, a, resp, tools, ts, ctr, f) ==
    IF ~Hashable(a)
    THEN StepOut("error", "", <<>>, ts, ctr, f,
                 Returned(Str(<<"ERROR in focused task execution:", "TypeError">>)))
    ELSE IF ~InRegistry(a, tools)
    THEN StepOut("unavailable", IF a.t = "str" /\ Len(a.v) = 1 THEN a.v[1] ELSE "",
                 <<Entry("assistant", resp),
                   Entry("tool", <<"Tool not available:", a, "Available:", tools>>)>>,
                 ts, ctr, f, NoRet)
    ELSE SubAfterDispatch(a.v[1], resp, Dispatch(a.v[1], ArgsOf(action), ts, ctr, f))

SubAgentStepOn(action, resp, tools, ts, ctr, f) ==
    IF <<"action">> \notin DOMAIN action.v
    THEN StepOut("invalid", "",
                 <<Entry("assistant", resp),
                   Entry("tool", <<"Response must be valid JSON with 'action' field.">>)>>,
                 ts, ctr, f, NoRet)
    ELSE SubActionBranch(action, action.v[<<"action">>], resp, tools, ts, ctr, f)

\* a loop that looks for the JSON action before it looks for the marker
ActionBeforeMarker(resp, tools, ts, ctr, f) ==
    IF HasMarker(resp) /\ <<"action">> \notin DOMAIN clean_json(resp).val.v
    THEN StepOut("complete", "", <<>>, ts, ctr, f, Returned(Str(Strip(RemoveMarker(resp)))))
    ELSE SubAgentStepOn(clean_json(resp).val, resp, tools, ts, ctr, f)

SubAgentStep(resp, tools, ts, ctr, f) ==
    IF HasMarker(resp)
    THEN StepOut("complete", "", <<>>, ts, ctr, f, Returned(Str(Strip(RemoveMarker(resp)))))
    ELSE SubAgentStepOn(clean_json(resp).val, resp, tools, ts, ctr, f)

\* the agent whose state a sub-agent's tools act on: the restricted registry is
\* filled with the parent's own bound methods
BoundTo == "parent"

Excerpt(text) == SubSeq(text, 1, IF Len(text) < ExcerptLen THEN Len(text) ELSE ExcerptLen)

(***************************************************************************)
(* Inputs.                                                                 *)
(***************************************************************************)
ActionText(name, rest) == <<"{", "action", ":", name>> \o rest \o <<"}">>
ArgsText(args) == <<",", "args", ":">> \o args

DelegateText(allowed) ==
    ActionText(DelegateTool,
               ArgsText(<<"{", "agent_type", ":", "x", ",", "task_description", ":", "x", ",",
                          "allowed_tools", ":", "[">> \o allowed
                        \o <<"]", ",", "context", ":", "x", "}">>))

WriteText == ActionText("write_file", ArgsText(<<"{", "path", ":", "x", ",", "contents", ":", "x", "}">>))
CreateText == ActionText("create_task", ArgsText(<<"{", "description", ":", "x", "}">>))
ProseText == <<"c", "c">>
DoneText == <<"c", "{", "action", ":", "DONE", ",", "result", ":", "x", "}", "c">>
DoneBareText == ActionText("DONE", <<>>)
NoActionText == <<"{", "args", ":", "{", "}", "}">>
ListActionText == ActionText("[", <<"]">>)
UnknownText == ActionText("nope", ArgsText(<<"{", "}">>))
BadArgsText == ActionText("read_file", ArgsText(<<"1">>))
RaisingToolText == ActionText("complete_task", ArgsText(<<"{", "task_id", ":", "[", "]", "}">>))

Responses ==
    { ProseText, DoneText, DoneBareText, NoActionText, ListActionText,
      ActionText("1", <<>>), UnknownText,
      CreateText, RaisingToolText, BadArgsText, WriteText,
      ActionText("run_all_tests", <<>>),
      DelegateText(<<"read_file">>),
      DelegateText(<<"create_task", ",", "write_file">>) }

\* the marker and, after it, a whole JSON action
MarkedWriteText == <<"TC">> \o WriteText

SubResponses ==
    { <<"TC", "c">>, MarkedWriteText, WriteText, CreateText,
      ActionText("read_file", ArgsText(<<"{", "path", ":", "x", "}">>)),
      ListActionText, DoneBareText }

(***************************************************************************)
(* The run of an agent: run_agent, and run_focused_task of the sub-agent   *)
(* a delegating tool call starts.                                          *)
(***************************************************************************)
NoStep == [kind |-> "none", tool |-> "", resp |-> <<>>]
NoScore == [exc |-> "idle", val |-> 0]
NoPrev == [issues |-> <<>>, score |-> 0, added |-> "none"]

ScoreIdle == qissues = <<>> /\ qscore = NoScore /\ qprev = NoPrev
Critics == {1, 2}
NoReport == [exc |-> "idle", val |-> 0]

CriticIdle ==
    /\ ccode = <<>> /\ cpath = ""
    /\ crep = [i \in Critics |-> NoReport] /\ ccount = [i \in Critics |-> 0]
NoBash == [v |-> "none", out |-> [exc |-> "idle", val |-> <<>>]]

BashIdle == bcmd = [t |-> "str", v |-> <<>>] /\ bworld = "idle" /\ bproc = 0 /\ bres = NoBash
PrdIdle == dtasks = <<>> /\ dnext = 0 /\ drunning = {} /\ dresults = <<>>
RunsIdle == runs = 0
NoSection == [section |-> "idle", files |-> 0, total |-> 0, critical |-> 0]
QualIdle == wdir = EmptyFn /\ wfocus = "" /\ wcritic = FALSE /\ wreport = NoSection
NoFile == [exists |-> FALSE, code |-> <<>>]
ImproveIdle ==
    /\ ifile = NoFile /\ icontent = <<>> /\ iscore = 0 /\ iissues = <<>>
    /\ iiter = 0 /\ irewrites = 0 /\ imax = 0 /\ ipc = "idle" /\ iret = ""
AuxIdle == ScoreIdle /\ CriticIdle /\ BashIdle /\ PrdIdle /\ RunsIdle /\ QualIdle /\ ImproveIdle
NoSnap == [tasks |-> <<>>, counter |-> 0, fs |-> EmptyFn, history |-> <<>>]

ParseIdle == raw = <<>> /\ parsed = NoRet /\ ppc = "idle"
NoCall == [op |-> "none", out |-> NoRet]

TaskIdle == creates = 0 /\ tres = NoCall
SubIdle ==
    /\ cur = NoStep /\ psnap = NoSnap /\ subTools = {} /\ subTasks = <<>>
    /\ subCounter = 0 /\ subHist = <<>> /\ subStep = 0 /\ subCalls = 0
    /\ subLast = NoStep /\ subRet = NoRet
LoopIdle ==
    /\ variant = "none" /\ max_steps = 0 /\ step = 0 /\ pc = "idle" /\ history = <<>>
    /\ calls = 0 /\ ret = NoRet /\ last = NoStep

Init ==
    /\ ParseIdle /\ TaskIdle /\ SubIdle /\ AuxIdle
    /\ tasks = <<>> /\ task_counter = 0 /\ fs = EmptyFn
    /\ variant \in {"coding", "surf", "web"}
    /\ max_steps \in 0..MaxSteps
    /\ step = 0 /\ pc = "start" /\ history = <<>> /\ calls = 0
    /\ ret = NoRet /\ last = NoStep

\* the loop is entered (the mobile variants: after the health check passed); a
\* budget of zero steps returns at once
StartRun ==
    /\ pc = "start"
    /\ pc' = IF max_steps = 0 THEN "returned" ELSE "loop"
    /\ ret' = IF max_steps = 0 THEN MaxStepsMessage(max_steps) ELSE ret
    /\ UNCHANGED <<variant, max_steps, step, history, calls, last, fs>>
    /\ UNCHANGED <<parseVars, taskVars, subVars, auxVars>>

HealthCheckFails ==
    /\ pc = "start"
    /\ variant # "coding"
    /\ pc' = "returned"
    /\ ret' = Returned(Str(<<"ERROR: Ollama server not running.">>))
    /\ UNCHANGED <<variant, max_steps, step, history, calls, last, fs>>
    /\ UNCHANGED <<parseVars, taskVars, subVars, auxVars>>

\* the end of an iteration that appended its entries: the next one, or the return
\* of the max-steps message when the budget is used up
NextIteration ==
    /\ step' = step + 1
    /\ pc' = IF step + 1 = max_steps THEN "returned" ELSE "loop"
    /\ ret' = IF step + 1 = max_steps THEN MaxStepsMessage(max_steps) ELSE ret

\* the sub-agent a delegating iteration starts: a new agent with the restricted
\* registry, an empty task list and an empty transcript
SubCreated(resp, tools) ==
    /\ cur' = [kind |-> "delegate", tool |-> DelegateTool, resp |-> resp]
    /\ psnap' = [tasks |-> tasks, counter |-> task_counter, fs |-> fs, history |-> history]
    /\ subTools' = tools
    /\ subTasks' = <<>> /\ subCounter' = 0 /\ subHist' = <<>>
    /\ subStep' = 0 /\ subCalls' = 0 /\ subLast' = NoStep /\ subRet' = NoRet

StepEffect(resp, o) ==
    /\ last' = [kind |-> o.kind, tool |-> o.tool, resp |-> resp]
    /\ tasks' = o.tasks
    /\ task_counter' = o.counter
    /\ fs' = o.fs
    /\ history' = history \o o.entries
    /\ IF o.kind = "done"
       THEN pc' = "returned" /\ ret' = o.ret /\ step' = step /\ UNCHANGED subVars
       ELSE IF o.kind = "raise"
       THEN pc' = "raised" /\ ret' = o.ret /\ step' = step /\ UNCHANGED subVars
       ELSE IF o.kind = "delegate"
       THEN /\ pc' = "sub" /\ ret' = ret /\ step' = step
            /\ SubCreated(resp, Delegation(variant, ArgsOf(clean_json(resp).val),
                                           Registry(variant)).tools)
       ELSE NextIteration /\ UNCHANGED subVars

Step(resp) ==
    /\ pc = "loop"
    /\ calls' = calls + 1
    /\ StepEffect(resp, AgentStep(variant, resp, step, tasks, task_counter, fs))
    /\ UNCHANGED <<variant, max_steps, creates, tres, parseVars, auxVars>>

\* the ways a request to the model backend fails
TransportFailures == {"refused", "timeout", "malformed"}

\* OllamaClient.generate on a failed request: every handler returns a text that
\* begins with ERROR (which of the first two handlers takes a reply that is not
\* JSON depends on the requests version; both return such a text)
generate(failure) ==
    Returned(IF failure = "malformed"
             THEN <<"ERROR: Failed to parse Ollama response:", failure>>
             ELSE <<"ERROR: Failed to connect to Ollama:", failure>>)

\* anthropic_call on a failed request: client.messages.create raises and
\* nothing handles it
anthropic_call(failure) ==
    Raised(IF failure = "timeout" THEN "APITimeoutError"
           ELSE IF failure = "refused" THEN "APIConnectionError"
           ELSE "APIResponseValidationError")

Gateway(v, failure) == IF v = "coding" THEN anthropic_call(failure) ELSE generate(failure)

\* the iteration whose call of the gateway gave g
GatewayEffect(g) ==
    IF g.exc # "none"
    THEN /\ pc' = "raised" /\ ret' = g
         /\ last' = [kind |-> "transport", tool |-> "", resp |-> <<>>]
         /\ UNCHANGED <<step, history, tasks, task_counter, fs, subVars>>
    ELSE StepEffect(g.val, AgentStep(variant, g.val, step, tasks, task_counter, fs))

TransportFailure(failure) ==
    /\ pc = "loop"
    /\ calls' = calls + 1
    /\ GatewayEffect(Gateway(variant, failure))
    /\ UNCHANGED <<variant, max_steps, creates, tres, parseVars, auxVars>>

SubStepEffect(resp, own, o, ended) ==
    /\ subLast' = [kind |-> o.kind, tool |-> o.tool, resp |-> resp]
    /\ tasks' = IF own THEN tasks ELSE o.tasks
    /\ task_counter' = IF own THEN task_counter ELSE o.counter
    /\ subTasks' = IF own THEN o.tasks ELSE subTasks
    /\ subCounter' = IF own THEN o.counter ELSE subCounter
    /\ fs' = o.fs
    /\ subHist' = subHist \o o.entries
    /\ subStep' = IF ended THEN subStep ELSE subStep + 1
    /\ pc' = IF ended \/ subStep + 1 = SubBudget THEN "subdone" ELSE "sub"
    /\ subRet' = IF ended THEN o.ret
                 ELSE IF subStep + 1 = SubBudget
                 THEN Returned(Str(<<"Task incomplete after steps", SubBudget>>))
                 ELSE subRet

SubStepOf(resp, own, o) == SubStepEffect(resp, own, o, o.kind \in {"complete", "error"})

SubStep(resp) ==
    /\ pc = "sub"
    /\ subCalls' = subCalls + 1
    /\ SubStepOf(resp, BoundTo = "self",
                 SubAgentStep(resp, subTools,
                              IF BoundTo = "self" THEN subTasks ELSE tasks,
                              IF BoundTo = "self" THEN subCounter ELSE task_counter, fs))
    /\ UNCHANGED <<cur, psnap, subTools>>
    /\ UNCHANGED <<variant, max_steps, step, history, calls, ret, last>>
    /\ UNCHANGED <<creates, tres, parseVars, auxVars>>

\* the sub-agent object is dropped when the delegating call returns
SubDropped ==
    /\ cur' = NoStep /\ psnap' = NoSnap /\ subTools' = {} /\ subTasks' = <<>>
    /\ subCounter' = 0 /\ subHist' = <<>> /\ subStep' = 0 /\ subCalls' = 0
    /\ subLast' = NoStep /\ subRet' = NoRet

\* create_specialized_sub_agent returns and the parent's iteration goes on
DelegateReturn ==
    /\ pc = "subdone"
    /\ history' = history \o ExecEntries(variant, step, cur.tool, cur.resp,
                                         Str(<<"Completed:", Excerpt(subRet.val.v), "...">>),
                                         tasks, task_counter, fs)
    /\ NextIteration
    /\ SubDropped
    /\ UNCHANGED <<variant, max_steps, calls, last, fs, tasks, task_counter>>
    /\ UNCHANGED <<creates, tres, parseVars, auxVars>>

Next ==
    \/ StartRun
    \/ HealthCheckFails
    \/ \E resp \in Responses : Step(resp)
    \/ \E failure \in TransportFailures : TransportFailure(failure)
    \/ \E resp \in SubResponses : SubStep(resp)
    \/ DelegateReturn

Spec == Init /\ [][Next]_vars

(***************************************************************************)
(* clean_json on its own: every text over ParseAlphabet of at most MaxLen  *)
(* symbols is parsed once.  "x" is a string literal in JSON and a word in  *)
(* prose; "q" is a double quote.                                           *)
(***************************************************************************)
ParseAlphabet == {"{", "}", "x", ":", "q"}

Texts == UNION {[1..n -> ParseAlphabet] : n \in 0..MaxLen}

InitParse ==
    /\ raw \in Texts
    /\ parsed = NoRet /\ ppc = "input"
    /\ TaskIdle /\ SubIdle /\ LoopIdle /\ AuxIdle
    /\ tasks = <<>> /\ task_counter = 0 /\ fs = EmptyFn

CleanJson ==
    /\ ppc = "input"
    /\ parsed' = clean_json(raw)
    /\ ppc' = "parsed"
    /\ UNCHANGED <<raw, fs, taskVars, loopVars, subVars, auxVars>>

NextParse == CleanJson

SpecParse == InitParse /\ [][NextParse]_vars

(***************************************************************************)
(* One task manager instance, called in any order.                         *)
(***************************************************************************)
TaskIds == {Num(1), Num(2), Str(<<"3">>), Num(MaxTasks + 1), Str(<<"x">>), Arr(<<>>)}
Statuses == {Str(<<"pending">>), Str(<<"in_progress">>), Str(<<"completed">>),
             Str(<<"bogus">>)}
Descriptions == {Str(<<"x">>)}
Priorities == {Str(<<"medium">>), Str(<<"bogus">>)}

InitTasks ==
    /\ tasks = <<>> /\ task_counter = 0 /\ creates = 0 /\ tres = NoCall
    /\ ParseIdle /\ SubIdle /\ LoopIdle /\ AuxIdle
    /\ fs = EmptyFn

Called(op, r) ==
    /\ tasks' = r.tasks
    /\ task_counter' = r.counter
    /\ tres' = [op |-> op, out |-> r.out]
    /\ UNCHANGED <<fs, parseVars, loopVars, subVars, auxVars>>

TMCreate(description, priority) ==
    /\ creates < MaxTasks
    /\ creates' = creates + 1
    /\ Called("create_task", create_task(tasks, task_counter, description, priority))

TMComplete(task_id) ==
    /\ creates' = creates
    /\ Called("complete_task", complete_task(tasks, task_counter, task_id))

TMUpdate(task_id, status) ==
    /\ creates' = creates
    /\ Called("update_task", update_task(tasks, task_counter, task_id, status))

TMList ==
    /\ creates' = creates
    /\ Called("list_tasks", list_tasks(tasks, task_counter))

NextTasks ==
    \/ \E d \in Descriptions, p \in Priorities : TMCreate(d, p)
    \/ \E i \in TaskIds : TMComplete(i)
    \/ \E i \in TaskIds, st \in Statuses : TMUpdate(i, st)
    \/ TMList

SpecTasks == InitTasks /\ [][NextTasks]_vars

(***************************************************************************)
(* CodeCritic._calculate_quality_score, on every list of at most MaxIssues *)
(* issues and on the list with one more issue put in at any position.      *)
(***************************************************************************)
CodeIssue(type, severity, line, category) ==
    [type |-> type, severity |-> severity, line |-> line, category |-> category]

Max(a, b) == IF a >= b THEN a ELSE b

\* a weight table in which a critical issue costs what a high one does
LenientWeight(severity) ==
    CASE severity \in {"critical", "high"} -> -10
      [] severity = "medium" -> -5
      [] severity = "low" -> -2
      [] OTHER -> 0

\* severity_weights.get(issue.severity, 0)
SeverityWeight(severity) ==
    CASE severity = "critical" -> -25
      [] severity = "high" -> -10
      [] severity = "medium" -> -5
      [] severity = "low" -> -2
      [] OTHER -> 0

RECURSIVE TotalDeduction(_)
TotalDeduction(issues) ==
    IF issues = <<>> THEN 0
    ELSE SeverityWeight(Head(issues).severity) + TotalDeduction(Tail(issues))

\* a score that is not held at zero
UnclampedScore(issues) == 100 + TotalDeduction(issues)

\* the weights are integers, so round(score, 1) changes nothing
calculate_quality_score(issues) ==
    IF issues = <<>> THEN 100 ELSE Max(0, 100 + TotalDeduction(issues))

IssueKinds ==
    { CodeIssue("security", "critical", 1, "secrets"),
      CodeIssue("maintainability", "high", 1, "complexity"),
      CodeIssue("best_practice", "medium", 1, "logging"),
      CodeIssue("style", "low", 1, "line_length"),
      CodeIssue("note", "info", 1, "note") }

IssueLists == UNION {[1..n -> IssueKinds] : n \in 0..MaxIssues}

Unscored == [exc |-> "input", val |-> 0]

InsertAt(seq, pos, x) == SubSeq(seq, 1, pos) \o <<x>> \o SubSeq(seq, pos + 1, Len(seq))

InitScore ==
    /\ qissues \in IssueLists
    /\ qscore = Unscored /\ qprev = NoPrev
    /\ RunsIdle /\ QualIdle /\ ImproveIdle
    /\ ParseIdle /\ TaskIdle /\ SubIdle /\ LoopIdle /\ CriticIdle /\ BashIdle /\ PrdIdle
    /\ tasks = <<>> /\ task_counter = 0 /\ fs = EmptyFn

CalculateScore ==
    /\ qscore = Unscored
    /\ qscore' = Returned(calculate_quality_score(qissues))
    /\ UNCHANGED <<qissues, qprev>>
    /\ UNCHANGED <<fs, parseVars, taskVars, loopVars, subVars, criticVars, bashVars, prdVars, runVars, qualVars, improveVars>>

\* the same list with one more issue, scored again
ScoreWithIssue(issue, pos) ==
    /\ qscore.exc = "none" /\ qprev = NoPrev
    /\ pos <= Len(qissues)
    /\ qprev' = [issues |-> qissues, score |-> qscore.val, added |-> issue.severity]
    /\ qissues' = InsertAt(qissues, pos, issue)
    /\ qscore' = Returned(calculate_quality_score(InsertAt(qissues, pos, issue)))
    /\ UNCHANGED <<fs, parseVars, taskVars, loopVars, subVars, criticVars, bashVars, prdVars, runVars, qualVars, improveVars>>

NextScore ==
    \/ CalculateScore
    \/ \E issue \in IssueKinds, pos \in 0..(MaxIssues + 1) : ScoreWithIssue(issue, pos)

SpecScore == InitScore /\ [][NextScore]_vars

(***************************************************************************)
(* CodeCritic.critique_code.  The code is a sequence of lines, each of one *)
(* kind: "long" (more than 120 characters), "secret" (a hardcoded          *)
(* credential), "print" (a print call), "doc" (a docstring), "import",     *)
(* "def8" (a one-line function of eight parameters), "bad" (a line that is *)
(* a syntax error) and "deep" (one long line whose expression the parser   *)
(* accepts but whose tree cannot be built: ast.parse raises RecursionError *)
(* or MemoryError), "sql" (an execute call on concatenated string          *)
(* literals) and "nest" (an if statement holding five further levels of    *)
(* control structures; its body is not counted as lines).                  *)
(***************************************************************************)
LineKinds == {"long", "secret", "print", "doc", "import", "def8", "bad", "deep", "sql", "nest"}

FirstOf(code, kinds) ==
    IF \E k \in 1..Len(code) : code[k] \in kinds
    THEN CHOOSE k \in 1..Len(code) :
            code[k] \in kinds /\ \A m \in 1..(k - 1) : code[m] \notin kinds
    ELSE 0

\* line numbers of the lines of a kind, in order
RECURSIVE LinesOf(_, _, _)
LinesOf(code, kinds, i) ==
    IF i > Len(code) THEN <<>>
    ELSE (IF code[i] \in kinds THEN <<i>> ELSE <<>>) \o LinesOf(code, kinds, i + 1)

\* ast.parse(code): the tree (here its FunctionDef nodes, by line), or the
\* exception; a syntax error is found before the tree is built
ast_parse(code) ==
    IF FirstOf(code, {"bad"}) # 0 THEN [exc |-> "SyntaxError", val |-> <<FirstOf(code, {"bad"})>>]
    ELSE IF FirstOf(code, {"deep"}) # 0 THEN [exc |-> "RecursionError", val |-> <<>>]
    ELSE [exc |-> "none", val |-> [k \in 1..Len(LinesOf(code, {"def8", "nest"}, 1)) |->
                                      [node |-> code[LinesOf(code, {"def8", "nest"}, 1)[k]],
                                       lineno |-> LinesOf(code, {"def8", "nest"}, 1)[k]]]]

\* a FunctionDef of more than seven parameters; an If of nesting depth above four
analyze_ast(tree) ==
    [k \in 1..Len(tree) |->
        IF tree[k].node = "def8"
        THEN CodeIssue("maintainability", "medium", tree[k].lineno, "parameter_count")
        ELSE CodeIssue("maintainability", "high", tree[k].lineno, "complexity")]

\* try: tree = ast.parse(code) ...  except SyntaxError: the syntax issue
AstStage(p) ==
    IF p.exc = "none" THEN [exc |-> "none", val |-> analyze_ast(p.val)]
    ELSE IF p.exc = "SyntaxError"
    THEN [exc |-> "none", val |-> <<CodeIssue("syntax", "critical", p.val[1], "syntax")>>]
    ELSE [exc |-> p.exc, val |-> <<>>]

LineIssues(kind, i) ==
    CASE kind \in {"long", "deep"} -> <<CodeIssue("style", "low", i, "line_length")>>
      [] kind = "secret" -> <<CodeIssue("security", "critical", i, "secrets")>>
      [] kind = "sql" -> <<CodeIssue("security", "high", i, "sql_injection")>>
      [] kind = "print" -> <<CodeIssue("best_practice", "medium", i, "logging")>>
      [] OTHER -> <<>>

RECURSIVE analyze_lines(_, _)
analyze_lines(lines, i) ==
    IF i > Len(lines) THEN <<>>
    ELSE LineIssues(lines[i], i) \o analyze_lines(lines, i + 1)

\* first_non_import is a 0-based index and is tested for truth: a file whose
\* first line is code gets no import-order issue
analyze_file_structure(file_path, code) ==
    (IF Len(code) > 0 /\ code[1] = "doc" THEN <<>>
     ELSE <<CodeIssue("best_practice", "medium", 1, "documentation")>>)
    \o (IF /\ FirstOf(code, {"import"}) # 0
           /\ FirstOf(code, LineKinds \ {"import", "doc"}) > 1
           /\ \E k \in 1..Len(code) :
                 code[k] = "import" /\ k > FirstOf(code, LineKinds \ {"import", "doc"})
        THEN <<CodeIssue("style", "medium",
                         LinesOf(code, {"import"}, 1)[Len(LinesOf(code, {"import"}, 1))],
                         "import_order")>>
        ELSE <<>>)

CountSeverity(issues, sev) == Cardinality({k \in 1..Len(issues) : issues[k].severity = sev})

Categories(issues) == {issues[k].category : k \in 1..Len(issues)}

\* the recommendations, in the order the code appends them
generate_recommendations(issues) ==
    (IF CountSeverity(issues, "critical") > 0 THEN <<"CRITICAL">> ELSE <<>>)
    \o (IF CountSeverity(issues, "high") > 0 THEN <<"HIGH">> ELSE <<>>)
    \o (IF "security" \in Categories(issues) THEN <<"Security">> ELSE <<>>)
    \o (IF "complexity" \in Categories(issues) THEN <<"Refactoring">> ELSE <<>>)
    \o (IF "documentation" \in Categories(issues) THEN <<"Documentation">> ELSE <<>>)

format_critique_response(issues) ==
    [quality_score |-> calculate_quality_score(issues),
     total_issues |-> Len(issues),
     severity_breakdown |-> [sev \in {"critical", "high", "medium", "low"} |->
                                CountSeverity(issues, sev)],
     issues |-> issues,
     recommendations |-> generate_recommendations(issues)]

AllIssues(a, code, file_path) ==
    a.val \o analyze_lines(code, 1)
    \o (IF file_path # "" THEN analyze_file_structure(file_path, code) ELSE <<>>)

CritiqueFrom(a, code, file_path) ==
    IF a.exc # "none" THEN [exc |-> a.exc, val |-> 0]
    ELSE [exc |-> "none", val |-> format_critique_response(AllIssues(a, code, file_path))]

\* a critic that looks at the lines only on its first critique
TiringCritic(self, code, file_path) ==
    IF self.performed = 0 THEN CritiqueFrom(AstStage(ast_parse(code)), code, file_path)
    ELSE CritiqueFrom(AstStage(ast_parse(code)), <<>>, file_path)

critique_code(self, code, file_path) ==
    CritiqueFrom(AstStage(ast_parse(code)), code, file_path)

Codes == UNION {[1..n -> LineKinds] : n \in 0..MaxLines}

InitCritic ==
    /\ ccode \in Codes /\ cpath \in {"", "a.py"}
    /\ crep = [i \in Critics |-> NoReport] /\ ccount = [i \in Critics |-> 0]
    /\ ScoreIdle /\ BashIdle /\ PrdIdle
    /\ RunsIdle /\ QualIdle /\ ImproveIdle
    /\ ParseIdle /\ TaskIdle /\ SubIdle /\ LoopIdle
    /\ tasks = <<>> /\ task_counter = 0 /\ fs = EmptyFn

\* instance i critiques (ccode, cpath)
Critique(i) ==
    /\ ccount[i] < MaxCritiques
    /\ crep' = [crep EXCEPT ![i] = critique_code([id |-> i, performed |-> ccount[i]],
                                                 ccode, cpath)]
    /\ ccount' = [ccount EXCEPT ![i] = ccount[i] + 1]
    /\ UNCHANGED <<ccode, cpath>>
    /\ UNCHANGED <<fs, parseVars, taskVars, loopVars, subVars, scoreVars, bashVars, prdVars, runVars, qualVars, improveVars>>

\* instance i critiques some other code in between
CritiqueOther(i) ==
    /\ ccount[i] < MaxCritiques
    /\ ccount' = [ccount EXCEPT ![i] = ccount[i] + 1]
    /\ UNCHANGED <<ccode, cpath, crep>>
    /\ UNCHANGED <<fs, parseVars, taskVars, loopVars, subVars, scoreVars, bashVars, prdVars, runVars, qualVars, improveVars>>

NextCritic ==
    \/ \E i \in Critics : Critique(i)
    \/ \E i \in Critics : CritiqueOther(i)

SpecCritic == InitCritic /\ [][NextCritic]_vars

(***************************************************************************)
(* ReflectionSystem.reflect_and_assess, the code quality section.  The     *)
(* working directory holds README.md and some of the files 1.py ..         *)
(* MaxFiles.py; a file is a readable source (a sequence of lines as in     *)
(* critique_code) or cannot be decoded.  A path is a file name with the    *)
(* text in front of it ("" for the bare name).                             *)
(***************************************************************************)
MaxFiles == 6
SampleSize == 5

Source(code) == [readable |-> TRUE, code |-> code]
BinaryFile == [readable |-> FALSE, code |-> <<>>]
FileContents == {Source(<<"doc">>), Source(<<"secret">>), BinaryFile}
Readme == [stem |-> MaxFiles + 1, ext |-> "md"]
PyFile(k) == [stem |-> k, ext |-> "py"]
Dirs == UNION {[S -> FileContents] : S \in SUBSET (1..MaxFiles)}

\* sorted(full_path.iterdir()): digits sort before "R"
RECURSIVE Listing(_, _)
Listing(dir, k) ==
    IF k > MaxFiles THEN <<[prefix |-> "[FILE] ", name |-> Readme]>>
    ELSE (IF k \in DOMAIN dir THEN <<[prefix |-> "[FILE] ", name |-> PyFile(k)]>> ELSE <<>>)
         \o Listing(dir, k + 1)

\* list_dir(self, path="."): any further keyword is a TypeError of the call
list_dir(dir, keywords) ==
    IF keywords # {} THEN [exc |-> "TypeError", val |-> <<>>]
    ELSE [exc |-> "none", val |-> Listing(dir, 1)]

\* FileOperations.read_file: the text, or "ERROR: ..." (here not ok)
file_ops_read_file(dir, path) ==
    IF /\ path.prefix = "" /\ path.name.ext = "py"
       /\ path.name.stem \in DOMAIN dir /\ dir[path.name.stem].readable
    THEN [ok |-> TRUE, code |-> dir[path.name.stem].code]
    ELSE [ok |-> FALSE, code |-> <<>>]

IsPy(line) == line.name.ext = "py"

\* try: all_files = list_dir(".", recursive=True) ...  except: pass
python_files(listed) ==
    IF listed.exc # "none" THEN <<>> ELSE SelectSeq(listed.val, IsPy)

NoSummary == [files |-> 0, total |-> 0, critical |-> 0]

\* the body of the for loop on one file; file_path.strip() keeps the "[FILE] "
AddCritique(sum, content, critique) ==
    IF content.ok /\ content.code # <<>> /\ critique.exc = "none"
    THEN [files |-> sum.files + 1, total |-> sum.total + critique.val.quality_score,
          critical |-> sum.critical + critique.val.severity_breakdown["critical"]]
    ELSE sum

RECURSIVE QualitySummary(_, _, _, _)
QualitySummary(dir, files, k, sum) ==
    IF k > Len(files) \/ k > SampleSize THEN sum
    ELSE QualitySummary(dir, files, k + 1,
            AddCritique(sum, file_ops_read_file(dir, files[k]),
                        critique_code([id |-> 0, performed |-> 0],
                                      file_ops_read_file(dir, files[k]).code, "path")))

SectionOf(files, sum) ==
    IF files = <<>> THEN [section |-> "no_python"] @@ NoSummary
    ELSE IF sum.files > 0 THEN [section |-> "analyzed"] @@ sum
    ELSE [section |-> "heading"] @@ NoSummary

quality_section(dir, focus, critic) ==
    IF ~(critic /\ focus \in {"overall", "code_quality"})
    THEN [section |-> "none"] @@ NoSummary
    ELSE SectionOf(python_files(list_dir(dir, {"recursive"})),
                   QualitySummary(dir, python_files(list_dir(dir, {"recursive"})), 1, NoSummary))

InitQuality ==
    /\ wdir \in Dirs /\ wfocus \in {"overall", "code_quality", "progress"}
    /\ wcritic \in BOOLEAN /\ wreport = NoSection
    /\ ScoreIdle /\ CriticIdle /\ BashIdle /\ PrdIdle /\ RunsIdle /\ ImproveIdle
    /\ ParseIdle /\ TaskIdle /\ SubIdle /\ LoopIdle
    /\ tasks = <<>> /\ task_counter = 0 /\ fs = EmptyFn

ReflectAndAssess ==
    /\ wreport = NoSection
    /\ wreport' = quality_section(wdir, wfocus, wcritic)
    /\ UNCHANGED <<wdir, wfocus, wcritic>>
    /\ UNCHANGED <<fs, parseVars, taskVars, loopVars, subVars, scoreVars, criticVars,
                   bashVars, prdVars, runVars, improveVars>>

NextQuality == ReflectAndAssess

SpecQuality == InitQuality /\ [][NextQuality]_vars

(***************************************************************************)
(* MobileWebAgent._improve_code_iteratively on one file.  A code is a      *)
(* sequence of lines as in critique_code; the model's rewrite is any of    *)
(* Rewrites.                                                               *)
(***************************************************************************)
MaxIterations == 3
Threshold == 85

OnDisk(code) == [exists |-> TRUE, code |-> code]

InitialFiles ==
    { NoFile, OnDisk(<<"secret">>), OnDisk(<<"secret", "secret">>), OnDisk(<<"sql">>),
      OnDisk(<<"doc", "print">>), OnDisk(<<"deep">>) }

Rewrites ==
    { <<"doc", "import", "def8">>, <<"import", "def8", "sql">>, <<"import", "def8", "secret">>,
      <<"import", "def8", "deep">>, <<"print">>, <<>> }

\* improved_code and "def " in improved_code and "import " in improved_code
LooksLikePython(code) ==
    /\ code # <<>>
    /\ \E k \in 1..Len(code) : code[k] = "def8"
    /\ \E k \in 1..Len(code) : code[k] = "import"

IsPriority(issue) == issue.severity \in {"critical", "high"}

\* critical_issues of the current critique
PriorityIssues(issues) == SelectSeq(issues, IsPriority)

ImproveEnds(summary) == ipc' = "done" /\ iret' = summary

\* the initial assessment, given the critique of the file's content
ImproveStartOn(crit) ==
    IF crit.exc # "none"
    THEN /\ ImproveEnds("Error during iterative improvement")
         /\ UNCHANGED <<icontent, iscore, iissues>>
    ELSE /\ icontent' = ifile.code
         /\ iscore' = crit.val.quality_score
         /\ iissues' = crit.val.issues
         /\ IF imax = 0 THEN ImproveEnds("summary") ELSE ipc' = "loop" /\ iret' = ""

ImproveStart ==
    /\ ipc = "start"
    /\ IF ~ifile.exists
       THEN /\ ImproveEnds("Could not read file for improvement")
            /\ UNCHANGED <<icontent, iscore, iissues>>
       ELSE ImproveStartOn(critique_code([id |-> 0, performed |-> 0], ifile.code, "path"))
    /\ UNCHANGED <<ifile, iiter, irewrites, imax>>
    /\ UNCHANGED <<fs, parseVars, taskVars, loopVars, subVars, scoreVars, criticVars,
                   bashVars, prdVars, runVars, qualVars>>

\* the iteration goes on to the next one, or the for loop is exhausted
ImproveContinues ==
    IF iiter + 1 = imax THEN ImproveEnds("summary") ELSE ipc' = "loop" /\ iret' = ""

\* the rewrite is on disk; its critique decides whether it becomes the accepted
\* version; an exception of the critic is caught by the iteration's handler
ImproveAssess(improved, crit) ==
    IF crit.exc = "none" /\ crit.val.quality_score > iscore
    THEN /\ iscore' = crit.val.quality_score
         /\ iissues' = crit.val.issues
         /\ icontent' = improved
    ELSE UNCHANGED <<icontent, iscore, iissues>>

ImproveIteration(improved, writable) ==
    /\ ipc = "loop" /\ iiter < imax
    /\ iiter' = iiter + 1
    /\ IF iscore >= Threshold \/ PriorityIssues(iissues) = <<>>
       THEN /\ ImproveEnds("summary")
            /\ UNCHANGED <<ifile, icontent, iscore, iissues, irewrites>>
       ELSE /\ irewrites' = irewrites + 1
            /\ IF ~LooksLikePython(improved)
               THEN ImproveContinues /\ UNCHANGED <<ifile, icontent, iscore, iissues>>
               ELSE IF ~writable
               THEN ImproveEnds("summary") /\ UNCHANGED <<ifile, icontent, iscore, iissues>>
               ELSE /\ ifile' = OnDisk(improved)
                    /\ ImproveAssess(improved,
                                     critique_code([id |-> 0, performed |-> 0], improved, "path"))
                    /\ ImproveContinues
    /\ UNCHANGED imax
    /\ UNCHANGED <<fs, parseVars, taskVars, loopVars, subVars, scoreVars, criticVars,
                   bashVars, prdVars, runVars, qualVars>>

InitImprove ==
    /\ ifile \in InitialFiles /\ imax \in 0..MaxIterations
    /\ icontent = <<>> /\ iscore = 0 /\ iissues = <<>>
    /\ iiter = 0 /\ irewrites = 0 /\ ipc = "start" /\ iret = ""
    /\ ScoreIdle /\ CriticIdle /\ BashIdle /\ PrdIdle /\ RunsIdle /\ QualIdle
    /\ ParseIdle /\ TaskIdle /\ SubIdle /\ LoopIdle
    /\ tasks = <<>> /\ task_counter = 0 /\ fs = EmptyFn

NextImprove ==
    \/ ImproveStart
    \/ \E improved \in Rewrites, writable \in BOOLEAN : ImproveIteration(improved, writable)

SpecImprove == InitImprove /\ [][NextImprove]_vars

(***************************************************************************)
(* run_bash.  A command is a text of characters; of the allow-list the     *)
(* model keeps the entries that can be written with CmdChars: "ls" in both *)
(* lists, "rm" in the list of the mobile variants only.                    *)
(***************************************************************************)
CmdChars == {"l", "s", "r", "m", " "}

AllowList(v) ==
    IF v = "coding" THEN {<<"l", "s">>} ELSE {<<"l", "s">>, <<"r", "m">>}

BashTimeout(v) == IF v = "coding" THEN 30 ELSE 60

\* cmd.startswith(a)
startswith(cmd, a) == Len(cmd) >= Len(a) /\ SubSeq(cmd, 1, Len(a)) = a

\* the try block: subprocess.run, its result made into a text, and the handlers
\* for TimeoutExpired and for every other exception
RunProcess(v, world) ==
    CASE world = "exit0" -> Returned(<<"STDOUT:", "out">>)
      [] world = "exit1" -> Returned(<<"STDERR:", "err", "Return code:", 1>>)
      [] world = "silent" -> Returned(<<"Command completed with no output">>)
      [] world = "timeout" -> Returned(<<"ERROR: Command timed out after", BashTimeout(v)>>)
      [] OTHER -> Returned(<<"ERROR:", world>>)

\* the outcome and the number of commands given to subprocess.run; the test of
\* the allow-list is before the try, and a cmd that is not a string has no
\* startswith
run_bash(v, cmd, world) ==
    IF cmd.t # "str" THEN [out |-> Raised("AttributeError"), started |-> 0]
    ELSE IF ~(\E a \in AllowList(v) : startswith(cmd.v, a))
    THEN [out |-> Returned(<<"ERROR: Command not allowed:", cmd.v>>), started |-> 0]
    ELSE [out |-> RunProcess(v, world), started |-> 1]

Commands ==
    {Str(c) : c \in UNION {[1..n -> CmdChars] : n \in 0..MaxCmd}} \cup {Arr(<<>>), Num(1)}

Worlds == {"exit0", "exit1", "silent", "timeout", "OSError"}

InitBash ==
    /\ bcmd \in Commands /\ bworld \in Worlds
    /\ bproc = 0 /\ bres = NoBash
    /\ ScoreIdle /\ CriticIdle /\ PrdIdle
    /\ RunsIdle /\ QualIdle /\ ImproveIdle
    /\ ParseIdle /\ TaskIdle /\ SubIdle /\ LoopIdle
    /\ tasks = <<>> /\ task_counter = 0 /\ fs = EmptyFn

BashCalled(v, r) ==
    /\ bres' = [v |-> v, out |-> r.out]
    /\ bproc' = bproc + r.started

RunBash(v) ==
    /\ bres = NoBash
    /\ BashCalled(v, run_bash(v, bcmd, bworld))
    /\ UNCHANGED <<bcmd, bworld>>
    /\ UNCHANGED <<fs, parseVars, taskVars, loopVars, subVars, scoreVars, criticVars, prdVars, runVars, qualVars, improveVars>>

NextBash == \E v \in {"coding", "surf", "web"} : RunBash(v)

SpecBash == InitBash /\ [][NextBash]_vars

(***************************************************************************)
(* analyze_prd_and_delegate as the tool call of an iteration of a mobile   *)
(* variant: the PRD is read, one sub-task is made for each kind of content *)
(* it has, and create_specialized_sub_agent is called for each in turn.    *)
(***************************************************************************)
PrdTool == "analyze_prd_and_delegate"
PrdText == ActionText(PrdTool, <<>>)

Sections == {"entities", "components", "workflows", "api_endpoints"}
PrdContents == (SUBSET Sections) \cup {{"unreadable"}}

\* a sub_tasks list that puts the testing specialist first
sub_tasks_testing_first(prd) ==
    <<"testing_specialist">>
    \o (IF "entities" \in prd THEN <<"database_specialist">> ELSE <<>>)
    \o (IF "components" \in prd THEN <<"frontend_specialist">> ELSE <<>>)
    \o (IF "workflows" \in prd THEN <<"workflow_specialist">> ELSE <<>>)
    \o (IF "api_endpoints" \in prd THEN <<"api_specialist">> ELSE <<>>)

sub_tasks(prd) ==
    (IF "entities" \in prd THEN <<"database_specialist">> ELSE <<>>)
    \o (IF "components" \in prd THEN <<"frontend_specialist">> ELSE <<>>)
    \o (IF "workflows" \in prd THEN <<"workflow_specialist">> ELSE <<>>)
    \o (IF "api_endpoints" \in prd THEN <<"api_specialist">> ELSE <<>>)
    \o <<"testing_specialist">>

ToolList(names) == Arr([k \in 1..Len(names) |-> Str(<<names[k]>>)])

\* task_spec['tools']
SpecialistTools(v, type) ==
    CASE type = "database_specialist" ->
            IF v = "surf"
            THEN ToolList(<<"setup_database_schema", "execute_database_query",
                            "apply_database_migration", "read_file", "write_file">>)
            ELSE ToolList(<<"read_file", "write_file", "run_bash">>)
      [] type = "frontend_specialist" ->
            ToolList(<<"create_responsive_component", "setup_tailwind",
                       "create_mobile_layout", "read_file", "write_file", "edit_file">>)
      [] type = "workflow_specialist" ->
            ToolList(<<"create_responsive_component", "read_file", "write_file", "edit_file">>)
      [] type = "api_specialist" ->
            ToolList(<<"read_file", "write_file", "edit_file", "run_bash">>)
      [] OTHER ->
            ToolList(<<"setup_jest", "setup_playwright", "create_unit_tests",
                       "create_e2e_tests", "run_all_tests", "read_file", "write_file">>)

SpecialistArgs(v, type) ==
    Obj([k \in {<<"agent_type">>, <<"task_description">>, <<"allowed_tools">>, <<"context">>} |->
            IF k = <<"agent_type">> THEN Str(<<type>>)
            ELSE IF k = <<"allowed_tools">> THEN SpecialistTools(v, type)
            ELSE Str(<<"x">>)])

\* a run of a mobile variant with a budget of one step
InitPrd ==
    /\ ParseIdle /\ TaskIdle /\ SubIdle /\ AuxIdle
    /\ tasks = <<>> /\ task_counter = 0 /\ fs = EmptyFn
    /\ variant \in {"surf", "web"}
    /\ max_steps = 1
    /\ step = 0 /\ pc = "start" /\ history = <<>> /\ calls = 0
    /\ ret = NoRet /\ last = NoStep

\* the iteration whose action is analyze_prd_and_delegate, up to the for loop
PrdStart(prd) ==
    /\ pc = "loop" /\ variant # "coding"
    /\ calls' = calls + 1
    /\ last' = [kind |-> "exec", tool |-> PrdTool, resp |-> PrdText]
    /\ IF "unreadable" \in prd
       THEN /\ history' = history \o ExecEntries(variant, step, PrdTool, PrdText,
                                                Str(<<"Failed to read PRD:", "ERROR">>),
                                                tasks, task_counter, fs)
            /\ NextIteration
            /\ UNCHANGED prdVars
       ELSE /\ pc' = "prd"
            /\ dtasks' = sub_tasks(prd) /\ dnext' = 1 /\ drunning' = {} /\ dresults' = <<>>
            /\ UNCHANGED <<history, step, ret>>
    /\ UNCHANGED <<variant, max_steps, tasks, task_counter, fs, subVars>>
    /\ UNCHANGED <<creates, tres, parseVars, scoreVars, criticVars, bashVars, runVars, qualVars, improveVars>>

\* create_specialized_sub_agent for the sub-task the for loop is at
PrdDeployOn(type, d) ==
    IF d.run
    THEN /\ pc' = "sub"
         /\ SubCreated(PrdText, d.tools)
         /\ drunning' = drunning \cup {type}
         /\ UNCHANGED <<dtasks, dnext, dresults>>
    ELSE /\ pc' = "prd"
         /\ dresults' = Append(dresults, [type |-> type, result |-> d.out])
         /\ dnext' = dnext + 1
         /\ UNCHANGED <<dtasks, drunning, subVars>>

PrdDeploy ==
    /\ pc = "prd" /\ dnext <= Len(dtasks)
    /\ PrdDeployOn(dtasks[dnext],
                   Delegation(variant, SpecialistArgs(variant, dtasks[dnext]), Registry(variant)))
    /\ UNCHANGED <<variant, max_steps, step, history, calls, ret, last, tasks, task_counter, fs>>
    /\ UNCHANGED <<creates, tres, parseVars, scoreVars, criticVars, bashVars, runVars, qualVars, improveVars>>

\* the sub-agent's loop has ended: create_specialized_sub_agent returns and the
\* result is appended to results
PrdCollect ==
    /\ pc = "subdone" /\ dnext # 0
    /\ dresults' = Append(dresults,
                          [type |-> dtasks[dnext],
                           result |-> Str(<<"Completed:", Excerpt(subRet.val.v), "...">>)])
    /\ drunning' = drunning \ {dtasks[dnext]}
    /\ dnext' = dnext + 1
    /\ pc' = "prd"
    /\ SubDropped
    /\ UNCHANGED dtasks
    /\ UNCHANGED <<variant, max_steps, step, history, calls, ret, last, tasks, task_counter, fs>>
    /\ UNCHANGED <<creates, tres, parseVars, scoreVars, criticVars, bashVars, runVars, qualVars, improveVars>>

\* the for loop is over: the summary is the tool's result
PrdReturn ==
    /\ pc = "prd" /\ dnext > Len(dtasks)
    /\ history' = history \o ExecEntries(variant, step, PrdTool, PrdText,
                                         Str(<<"Sub-agent delegation completed:",
                                               Len(dtasks), dresults>>),
                                         tasks, task_counter, fs)
    /\ NextIteration
    /\ dtasks' = <<>> /\ dnext' = 0 /\ drunning' = {} /\ dresults' = <<>>
    /\ UNCHANGED <<variant, max_steps, calls, last, tasks, task_counter, fs, subVars>>
    /\ UNCHANGED <<creates, tres, parseVars, scoreVars, criticVars, bashVars, runVars, qualVars, improveVars>>

PrdSubResponses == { <<"TC", "c">>, ProseText, WriteText }

NextPrd ==
    \/ StartRun
    \/ \E prd \in PrdContents : PrdStart(prd)
    \/ PrdDeploy
    \/ \E resp \in PrdSubResponses : SubStep(resp)
    \/ PrdCollect
    \/ PrdReturn

SpecPrd == InitPrd /\ [][NextPrd]_vars

(***************************************************************************)
(* A run of a mobile variant that is long enough for the reflection        *)
(* checkpoint: its budget is ReflectEvery steps, and every response is     *)
(* prose, an unknown tool or a call of list_tasks.                         *)
(***************************************************************************)
ReflectResponses == { ProseText, UnknownText, ActionText("list_tasks", <<>>) }

InitReflect ==
    /\ ParseIdle /\ TaskIdle /\ SubIdle /\ AuxIdle
    /\ tasks = <<>> /\ task_counter = 0 /\ fs = EmptyFn
    /\ variant \in {"surf", "web"}
    /\ max_steps = ReflectEvery
    /\ step = 0 /\ pc = "start" /\ history = <<>> /\ calls = 0
    /\ ret = NoRet /\ last = NoStep

NextReflect ==
    \/ StartRun
    \/ \E resp \in ReflectResponses : Step(resp)

SpecReflect == InitReflect /\ [][NextReflect]_vars

(***************************************************************************)
(* SpecialistFactory._run_focused_task, the loop of a sub-agent of the web *)
(* variant, called with max_steps = FactoryReflectEvery: the shortest run  *)
(* that reaches the loop's reflection checkpoint.  The sub-agent is a new  *)
(* MobileWebAgent with the whole registry, and its tools act on its own    *)
(* task list.                                                              *)
(***************************************************************************)
FactoryResponses ==
    { <<"TC", "c">>, MarkedWriteText, ProseText, UnknownText, ActionText("list_tasks", <<>>) }

InitFactory ==
    /\ ParseIdle /\ TaskIdle /\ AuxIdle
    /\ tasks = <<>> /\ task_counter = 0 /\ fs = EmptyFn
    /\ variant = "web" /\ max_steps = 0 /\ step = 0 /\ pc = "sub"
    /\ history = <<>> /\ calls = 0 /\ ret = NoRet /\ last = NoStep
    /\ cur = NoStep /\ psnap = NoSnap
    /\ subTools = Registry("web")
    /\ subTasks = <<>> /\ subCounter = 0 /\ subHist = <<>>
    /\ subStep = 0 /\ subCalls = 0 /\ subLast = NoStep /\ subRet = NoRet

\* the reflection of the checkpoint is appended as soon as the response is in,
\* before the response is looked at
FactoryEntries(reflect, ts, ctr, f, o) ==
    (IF reflect
     THEN <<Entry("tool", <<"REFLECTION:", reflect_and_assess(ts, ctr, f)>>)>>
     ELSE <<>>) \o o.entries

FactoryEffect(resp, o, ended, budget) ==
    /\ subLast' = [kind |-> o.kind, tool |-> o.tool, resp |-> resp]
    /\ subTasks' = o.tasks /\ subCounter' = o.counter /\ fs' = o.fs
    /\ subHist' = subHist \o FactoryEntries((subStep + 1) % FactoryReflectEvery = 0,
                                            subTasks, subCounter, fs, o)
    /\ subStep' = IF ended THEN subStep ELSE subStep + 1
    /\ pc' = IF ended \/ subStep + 1 = budget THEN "subdone" ELSE "sub"
    /\ subRet' = IF ended THEN o.ret
                 ELSE IF subStep + 1 = budget
                 THEN Returned(Str(<<"Task incomplete after steps", budget>>))
                 ELSE subRet

FactoryStepOf(resp, o) ==
    FactoryEffect(resp, o, o.kind \in {"complete", "error"}, FactoryReflectEvery)

FactoryStep(resp) ==
    /\ pc = "sub"
    /\ subCalls' = subCalls + 1
    /\ FactoryStepOf(resp, SubAgentStep(resp, subTools, subTasks, subCounter, fs))
    /\ UNCHANGED <<cur, psnap, subTools, tasks, task_counter>>
    /\ UNCHANGED <<variant, max_steps, step, history, calls, ret, last>>
    /\ UNCHANGED <<creates, tres, parseVars, auxVars>>

NextFactory == \E resp \in FactoryResponses : FactoryStep(resp)

SpecFactory == InitFactory /\ [][NextFactory]_vars

(***************************************************************************)
(* Several invocations of run_agent in one process, as the interactive     *)
(* runner makes them: on the module of coding_agent, or on one agent       *)
(* object of a mobile variant.                                             *)
(***************************************************************************)
RunsResponses == { CreateText, ActionText("list_tasks", <<>>), DoneBareText }

InitRuns == Init

\* run_agent is invoked again: its locals are new, the task storage is what the
\* earlier invocation left
RunAgain(budget) ==
    /\ pc \in {"returned", "raised"}
    /\ runs < MaxRuns
    /\ runs' = runs + 1
    /\ pc' = "start" /\ max_steps' = budget
    /\ step' = 0 /\ history' = <<>> /\ calls' = 0 /\ ret' = NoRet /\ last' = NoStep
    /\ UNCHANGED <<variant, tasks, task_counter, fs>>
    /\ UNCHANGED <<parseVars, taskVars, subVars, scoreVars, criticVars, bashVars, prdVars, qualVars, improveVars>>

NextRuns ==
    \/ StartRun
    \/ HealthCheckFails
    \/ \E resp \in RunsResponses : Step(resp)
    \/ \E budget \in 0..MaxSteps : RunAgain(budget)

SpecRuns == InitRuns /\ [][NextRuns]_vars

(***************************************************************************)
(* Properties.                                                             *)
(***************************************************************************)
ActionOf(resp) == clean_json(resp).val
HasAction(resp) == <<"action">> \in DOMAIN ActionOf(resp).v
NameOf(resp) == ActionOf(resp).v[<<"action">>]
ParsesToDone(resp) == HasAction(resp) /\ IsStr(NameOf(resp), "DONE")
HealthMessage == Returned(Str(<<"ERROR: Ollama server not running.">>))

\* a step of run_agent: the loop makes its model call
ModelCall == pc = "loop" /\ calls' = calls + 1

\* C1: a run of any variant whose responses never parse to DONE (and whose health
\* check passed) does not end by an exception, and when it has ended it returned
\* the max-steps message after exactly max_steps model calls
C1_MaxStepsAfterExactBudget ==
    (/\ pc \in {"returned", "raised"}
     /\ ret # HealthMessage
     /\ ~(last.kind # "none" /\ ParsesToDone(last.resp)))
    => (pc = "returned" /\ ret = MaxStepsMessage(max_steps) /\ calls = max_steps)

DoneResult(resp) ==
    IF <<"result">> \in DOMAIN ActionOf(resp).v
    THEN ActionOf(resp).v[<<"result">>]
    ELSE Str(<<"Task completed.">>)

C2Step ==
    (ModelCall /\ ParsesToDone(last'.resp))
    => /\ pc' = "returned"
       /\ ret' = Returned(DoneResult(last'.resp))
       /\ history' = history
       /\ tasks' = tasks /\ task_counter' = task_counter /\ fs' = fs
       /\ (calls = 0 => calls' = 1)

C2After == pc = "returned" => (calls' = calls /\ subCalls' = subCalls /\ ret' = ret)

C2Only ==
    (pc' = "returned" /\ calls' > 0 /\ ret' # MaxStepsMessage(max_steps))
    => ParsesToDone(last'.resp)

\* C2: a step whose parsed action is DONE returns the action's result (or
\* "Task completed.") at once, with no tool invoked and nothing appended to the
\* transcript; no model call follows a return; and once a model call was made a
\* run returns something other than the max-steps message only by DONE
C2_DoneReturnsImmediately == [][C2Step /\ C2After /\ C2Only]_vars

C2_Witness ==
    /\ pc = "returned" /\ calls = 1 /\ last.resp = DoneText
    /\ ret = Returned(Str(<<"x">>)) /\ history = <<>>

Malformed(resp) ==
    \/ CleanJsonBody(resp).exc # "none"
    \/ ~HasAction(resp)
    \/ NameOf(resp).t # "str"

\* C3: a step whose response is not a well-formed action (unparsable, no 'action'
\* key, or an 'action' that is not a string) does not raise: it appends the
\* assistant entry with the raw response and a tool entry, and the loop goes on
C3_MalformedNeverRaises ==
    [][(ModelCall /\ Malformed(last'.resp))
       => /\ pc' # "raised"
          /\ step' = step + 1
          /\ Len(history') = Len(history) + 2
          /\ SubSeq(history', 1, Len(history)) = history
          /\ history'[Len(history) + 1] = Entry("assistant", last'.resp)
          /\ history'[Len(history) + 2].role = "tool"]_vars

\* the step's action names a registered tool whose invocation raises
ToolRaises(resp) ==
    /\ HasAction(resp)
    /\ InRegistry(NameOf(resp), Registry(variant))
    /\ CallTool(NameOf(resp).v[1], ArgsOf(ActionOf(resp)), tasks, task_counter, fs).out.exc
         # "none"

RaisedBy(resp) ==
    CallTool(NameOf(resp).v[1], ArgsOf(ActionOf(resp)), tasks, task_counter, fs).out.exc

\* C4: when invoking a registered tool raises (whatever args is), the exception
\* does not leave run_agent: the tool result is "Tool execution error: <message>",
\* the assistant and tool entries are appended, and the loop goes on to the next step
C4_ToolExceptionsContained ==
    [][(ModelCall /\ ToolRaises(last'.resp))
       => /\ pc' \in {"loop", "returned"}
          /\ (pc' = "returned" => ret' = MaxStepsMessage(max_steps) /\ step' = max_steps)
          /\ step' = step + 1
          /\ Len(history') >= Len(history) + 2
          /\ SubSeq(history', 1, Len(history)) = history
          /\ history'[Len(history) + 1] = Entry("assistant", last'.resp)
          /\ history'[Len(history) + 2]
               = Entry("tool", <<"Tool execution error:", RaisedBy(last'.resp)>>)]_vars

C4_Witness ==
    /\ pc = "loop" /\ last.resp = RaisingToolText /\ Len(history) = 2
    /\ history[2] = Entry("tool", <<"Tool execution error:", "TypeError">>)

\* the step's action name is not a key of the registry of the running variant
UnknownName(resp) ==
    /\ HasAction(resp)
    /\ Hashable(NameOf(resp))
    /\ ~IsStr(NameOf(resp), "ERROR") /\ ~IsStr(NameOf(resp), "DONE")
    /\ ~InRegistry(NameOf(resp), Registry(variant))

\* C5: when the action name is not a key of the registry no tool is invoked, the
\* appended tool entry holds the requested name and the names of the registry,
\* the run neither raises nor ends (other than by the budget), and the step
\* uses one unit of the budget
C5_UnknownToolReported ==
    [][(ModelCall /\ UnknownName(last'.resp))
       => /\ pc' \in {"loop", "returned"}
          /\ (pc' = "returned" => ret' = MaxStepsMessage(max_steps) /\ step' = max_steps)
          /\ step' = step + 1
          /\ tasks' = tasks /\ task_counter' = task_counter /\ fs' = fs
          /\ Len(history') = Len(history) + 2
          /\ SubSeq(history', 1, Len(history)) = history
          /\ history'[Len(history) + 1] = Entry("assistant", last'.resp)
          /\ history'[Len(history) + 2].role = "tool"
          /\ Len(history'[Len(history) + 2].content) = 4
          /\ history'[Len(history) + 2].content[1] = "Unknown tool:"
          /\ history'[Len(history) + 2].content[2] = NameOf(last'.resp)
          /\ history'[Len(history) + 2].content[4] = Registry(variant)]_vars

C5_Witness ==
    /\ pc = "loop" /\ step = 1 /\ last.resp = UnknownText /\ Len(history) = 2
    /\ history[2].content[2] = Str(<<"nope">>)
    /\ tasks = <<>> /\ fs = EmptyFn

\* s[i..j] is a well-formed JSON object
ObjectAt(s, i, j) == s[i] = "{" /\ s[j] = "}" /\ JsonLoads(SubSeq(s, i, j)).ok

\* s[i..j] is the single JSON object of s: any other lies inside it
SingleObject(s, i, j) ==
    /\ ObjectAt(s, i, j)
    /\ \A a \in 1..Len(s) : \A b \in a..Len(s) :
          (s[a] = "{" /\ s[b] = "}" /\ ObjectAt(s, a, b)) => (i <= a /\ b <= j)

NoneIn(s, ch) == \A k \in 1..Len(s) : s[k] # ch

\* C6 as stated: for a text that holds a single well-formed JSON object with any
\* prose around it, clean_json returns that object's decoded content
C6_AnyProse ==
    ppc = "parsed" =>
        \A i \in 1..Len(raw) : \A j \in i..Len(raw) :
            SingleObject(raw, i, j) => parsed = Returned(JsonLoads(SubSeq(raw, i, j)).val)

\* C6, amended: for a text that holds a single well-formed JSON object, with
\* prose before it that has no "{" and prose after it that has no "}",
\* clean_json returns that object's decoded content
C6_ProseWithoutBraces ==
    ppc = "parsed" =>
        \A i \in 1..Len(raw) : \A j \in i..Len(raw) :
            (/\ SingleObject(raw, i, j)
             /\ NoneIn(SubSeq(raw, 1, i - 1), "{")
             /\ NoneIn(SubSeq(raw, j + 1, Len(raw)), "}"))
            => parsed = Returned(JsonLoads(SubSeq(raw, i, j)).val)

C6_Witness ==
    /\ ppc = "parsed"
    /\ raw = <<"x", "{", "x", ":", "x", "}">>
    /\ parsed = Returned(Obj(<<"x">> :> Str(<<"x">>)))

IsSentinel(v) ==
    /\ v.t = "obj"
    /\ DOMAIN v.v = {<<"action">>, <<"args">>}
    /\ IsStr(v.v[<<"action">>], "ERROR")
    /\ v.v[<<"args">>].t = "obj"
    /\ DOMAIN v.v[<<"args">>].v = {<<"message">>}
    /\ v.v[<<"args">>].v[<<"message">>].t = "str"

Undecodable(s) ==
    \/ Find(s, "{") = -1
    \/ RFind(s, "}") = -1
    \/ ~JsonLoads(Slice(s, Find(s, "{"), RFind(s, "}") + 1)).ok

\* C7: clean_json never raises, and for a text with no "{" or no "}", or whose
\* part from the first "{" to the last "}" does not decode (the last "}" may
\* come before the first "{"), it returns the ERROR sentinel
C7_NeverRaises ==
    ppc = "parsed" =>
        /\ parsed.exc = "none"
        /\ (Undecodable(raw) => IsSentinel(parsed.val))

C7_Witness ==
    /\ ppc = "parsed"
    /\ raw = <<"}", "x", "{">>
    /\ IsSentinel(parsed.val)

\* C8: after N create_task calls, in any interleaving with complete_task,
\* update_task and list_tasks calls, the stored tasks have the ids 1..N in
\* creation order, and the latest create_task returned the id N
C8_IdsAreOneToN ==
    /\ Len(tasks) = creates
    /\ \A k \in 1..Len(tasks) : tasks[k].id = k
    /\ (tres.op = "create_task"
        => tres.out = Returned(Str(<<"Created task #", creates, tasks[creates].description>>)))

C8_Witness ==
    /\ creates = 2 /\ tres.op = "create_task"
    /\ tasks[1].status = <<"completed">> /\ tasks[2].id = 2

\* the names in allowed_tools of the delegating action
AllowedOf(resp) ==
    {n \in Registry("surf") :
        \E k \in 1..Len(ArgsOf(ActionOf(resp)).v[<<"allowed_tools">>].v) :
            IsStr(ArgsOf(ActionOf(resp)).v[<<"allowed_tools">>].v[k], n)}

\* the sub-agent's response asks for a tool outside allowed_tools
OutsideAllowed(resp, allowed) ==
    /\ ~HasMarker(resp)
    /\ HasAction(resp)
    /\ Hashable(NameOf(resp))
    /\ ~InRegistry(NameOf(resp), allowed)

C10_NoSharedState ==
    pc \in {"sub", "subdone"}
    => (tasks = psnap.tasks /\ task_counter = psnap.counter /\ history = psnap.history)

\* the weight the claim gives a severity, none for any other
StatedWeight(severity) ==
    CASE severity = "critical" -> -25
      [] severity = "high" -> -10
      [] severity = "medium" -> -5
      [] severity = "low" -> -2
      [] OTHER -> 0

RECURSIVE StatedSum(_)
StatedSum(issues) ==
    IF issues = <<>> THEN 0
    ELSE StatedWeight(issues[1].severity) + StatedSum(SubSeq(issues, 2, Len(issues)))

\* C11: the quality score of a list of issues is max(0, 100 + sum of the
\* severity weights -25, -10, -5, -2), so it lies in 0..100 and is 100 exactly
\* when the weighted sum is 0
C11_ScoreFormula ==
    qscore.exc = "none" =>
        /\ qscore.val = (IF 100 + StatedSum(qissues) > 0 THEN 100 + StatedSum(qissues) ELSE 0)
        /\ qscore.val \in 0..100
        /\ (qscore.val = 100 <=> StatedSum(qissues) = 0)

C11_Witness ==
    /\ qscore = Returned(0) /\ Len(qissues) = 5
    /\ StatedSum(qissues) = -110

\* C12: a list with one more critical issue scores at most the score of the
\* list without it minus 25, held at 0; one more issue of any severity never
\* raises the score
C12_CriticalCostsTwentyFive ==
    (qscore.exc = "none" /\ qprev.added # "none") =>
        /\ qscore.val <= qprev.score
        /\ (qprev.added = "critical"
            => qscore.val <= (IF qprev.score - 25 > 0 THEN qprev.score - 25 ELSE 0))

C12_Witness ==
    /\ qprev.added = "critical" /\ qprev.score = 20 /\ qscore = Returned(0)

IsStructural(issue) == issue.category \in {"function_length", "parameter_count", "complexity"}

\* C14: critique_code never raises; when the code does not parse into a tree the
\* report has exactly one issue of type syntax, of severity critical, has no
\* structural issue, and has the issues of the line and file stages
C14_CritiqueNeverRaises ==
    \A i \in Critics :
        crep[i].exc # "idle" =>
            /\ crep[i].exc = "none"
            /\ (ast_parse(ccode).exc # "none"
                => /\ Cardinality({k \in 1..Len(crep[i].val.issues) :
                                      crep[i].val.issues[k].type = "syntax"}) = 1
                   /\ \A k \in 1..Len(crep[i].val.issues) :
                         /\ crep[i].val.issues[k].type = "syntax"
                            => crep[i].val.issues[k].severity = "critical"
                         /\ ~IsStructural(crep[i].val.issues[k])
                   /\ SubSeq(crep[i].val.issues, 2, Len(crep[i].val.issues))
                        = analyze_lines(ccode, 1)
                          \o (IF cpath # "" THEN analyze_file_structure(cpath, ccode)
                              ELSE <<>>))

ErrorTexts == {"ERROR: Invalid task ID", "ERROR: Task not found", "ERROR: Invalid status"}

BadId(task_id) == IntOf(task_id).exc # "none" \/ TaskIndex(tasks, IntOf(task_id).val) = 0

Rejected ==
    /\ tres'.out.exc = "none"
    /\ tres'.out.val.v[1] \in ErrorTexts
    /\ tasks' = tasks /\ task_counter' = task_counter

\* C15: complete_task and update_task never raise; with a non-numeric id, an id
\* of no task or (update_task) a status outside the three valid ones they return
\* a text beginning with ERROR and change neither the tasks nor the counter, and
\* an invalid status is rejected as such even when the id is invalid too
C15_TaskErrorsReturned ==
    [][/\ \A i \in TaskIds : (TMComplete(i) /\ BadId(i)) => Rejected
       /\ \A i \in TaskIds, st \in Statuses :
             /\ (TMUpdate(i, st) /\ (BadId(i) \/ st.v \notin ValidStatuses)) => Rejected
             /\ (TMUpdate(i, st) /\ st.v \notin ValidStatuses)
                => tres'.out.val.v[1] = "ERROR: Invalid status"
       /\ tres'.op \in {"complete_task", "update_task"} => tres'.out.exc = "none"]_vars

PriorityEnum == {Str(<<"low">>), Str(<<"medium">>), Str(<<"high">>)}

\* C16: every stored task has a status among pending, in_progress, completed and
\* a priority among low, medium, high
C16_TaskFieldsInEnums ==
    \A k \in 1..Len(tasks) :
        /\ tasks[k].status \in ValidStatuses
        /\ tasks[k].priority \in PriorityEnum

\* C17: a transport failure during a step raises neither out of the gateway nor
\* out of run_agent: the gateway returns a text that begins with an error marker,
\* the loop records it as an unparsable turn, one step is used and the run goes on
C17_TransportFailureContained ==
    [][\A failure \in TransportFailures :
          TransportFailure(failure)
          => /\ Gateway(variant, failure).exc = "none"
             /\ pc' # "raised"
             /\ last'.kind = "parse_error"
             /\ history' = history \o <<Entry("assistant", Gateway(variant, failure).val),
                                        history'[Len(history')]>>
             /\ step' = step + 1
             /\ pc' = IF step + 1 = max_steps THEN "returned" ELSE "loop"]_vars

HasAllowedPrefix(v, cmd) ==
    /\ cmd.t = "str"
    /\ \E a \in AllowList(v) : \A k \in 1..Len(a) : k <= Len(cmd.v) /\ cmd.v[k] = a[k]

\* C18: run_bash never raises; it gives the command to a process exactly when
\* the command starts with an allow-list prefix, returns "ERROR: Command not
\* allowed" otherwise, and returns "ERROR: Command timed out" when the process
\* exceeds the timeout
C18_BashAllowList ==
    bres.v # "none" =>
        /\ bres.out.exc = "none"
        /\ bproc = 1 <=> HasAllowedPrefix(bres.v, bcmd)
        /\ ~HasAllowedPrefix(bres.v, bcmd)
           => bproc = 0 /\ bres.out.val[1] = "ERROR: Command not allowed:"
        /\ (HasAllowedPrefix(bres.v, bcmd) /\ bworld = "timeout")
           => bres.out.val[1] = "ERROR: Command timed out after"

DeployOrder(type) ==
    CASE type = "database_specialist" -> 1
      [] type = "frontend_specialist" -> 2
      [] type = "workflow_specialist" -> 3
      [] type = "api_specialist" -> 4
      [] type = "testing_specialist" -> 5

IsPrefix(e, text) == Len(e) <= Len(text) /\ e = SubSeq(text, 1, Len(e))

\* C20: a call of create_specialized_sub_agent starts a new agent with an empty
\* transcript and runs its loop; when the loop has ended the parent's transcript
\* gains the assistant entry and exactly one tool entry, "Completed: " with at
\* most the first 200 characters of the sub-agent's final text and "...", and no
\* entry of the sub-agent's transcript
C20_DelegationExcerpt ==
    [][/\ (pc = "loop" /\ calls' = calls + 1 /\ last'.tool = DelegateTool)
          => pc' = "sub" /\ subHist' = <<>> /\ subStep' = 0 /\ history' = history
       /\ (pc = "subdone" /\ pc' # "subdone")
          => /\ Len(history') = Len(history) + 2
             /\ history'[Len(history) + 1] = Entry("assistant", cur.resp)
             /\ history'[Len(history) + 2].role = "tool"
             /\ Len(history'[Len(history) + 2].content) = 3
             /\ history'[Len(history) + 2].content[1] = "Completed:"
             /\ history'[Len(history) + 2].content[3] = "..."
             /\ IsPrefix(history'[Len(history) + 2].content[2], subRet.val.v)
             /\ Len(history'[Len(history) + 2].content[2]) <= ExcerptLen
             /\ \A k \in 1..Len(subHist) :
                   subHist[k] \notin {history'[Len(history) + 1], history'[Len(history) + 2]}]_vars

\* a step of a sub-agent's loop: the loop makes its model call
SubModelCall == pc = "sub" /\ subCalls' = subCalls + 1

\* C21: a sub-agent's run ends at the first response that holds the marker
\* TASK_COMPLETE: or that decodes to the action DONE: the loop is left on that
\* response, which invokes no tool and is not recorded as a turn of the loop
C21_SubAgentTwoSignals ==
    [][(SubModelCall /\ (HasMarker(subLast'.resp) \/ ParsesToDone(subLast'.resp)))
       => /\ pc' = "subdone"
          /\ subStep' = subStep
          /\ subHist' = subHist
          /\ subLast'.tool = ""]_vars

\* the entries a step appended hold a REFLECTION entry at position k of them
ReflectionAt(k) ==
    /\ Len(history') >= Len(history) + k
    /\ history'[Len(history) + k].role = "tool"
    /\ Len(history'[Len(history) + k].content) >= 1
    /\ history'[Len(history) + k].content[1] = "REFLECTION:"

\* C22: in the mobile variants every step 10k that does not return appends a
\* REFLECTION entry, whether the step executed a tool, named an unknown tool or
\* failed to parse
C22_ReflectionOnSchedule ==
    [][(/\ ModelCall /\ variant # "coding"
        /\ (step + 1) % ReflectEvery = 0
        /\ step' = step + 1)
       => \E k \in 1..3 : ReflectionAt(k)]_vars

\* C23: in the mobile variants every step that executes a PRD-progress, testing
\* or deployment tool appends a REFLECTION entry right after the tool's result
C23_ReflectionAfterToolCategories ==
    [][(/\ ModelCall /\ variant # "coding"
        /\ last'.kind = "exec" /\ last'.tool \in ReflectTools)
       => /\ Len(history') = Len(history) + 3
          /\ history'[Len(history) + 2].role = "tool"
          /\ ReflectionAt(3)]_vars

IsReflection(e) == e.role = "tool" /\ Len(e.content) >= 1 /\ e.content[1] = "REFLECTION:"

\* the entries of one step: the assistant entry with the raw response, one tool
\* entry, and possibly a REFLECTION entry after them
StepShape(app, resp) ==
    /\ Len(app) \in {2, 3}
    /\ app[1] = Entry("assistant", resp)
    /\ app[2].role = "tool"
    /\ Len(app) = 3 => IsReflection(app[3])

Alternates(h) ==
    /\ h # <<>> => h[1].role = "assistant"
    /\ \A k \in 1..(Len(h) - 1) :
          /\ ~(h[k].role = "assistant" /\ h[k + 1].role = "assistant")
          /\ (h[k].role = "tool" /\ h[k + 1].role = "tool") => IsReflection(h[k + 1])

\* C24: the transcript of a run, of an agent or of a sub-agent, only grows; a
\* step that does not end the run appends the assistant entry, one tool entry and
\* possibly one REFLECTION entry, in this order; so the transcript starts with an
\* assistant entry, has no two assistant entries in a row, and has two tool
\* entries in a row only where the second is a REFLECTION entry
C24_TranscriptShape ==
    [][/\ IsPrefix(history, history')
       /\ (pc = "sub" => IsPrefix(subHist, subHist'))
       /\ (ModelCall /\ step' = step + 1)
          => StepShape(SubSeq(history', Len(history) + 1, Len(history')), last'.resp)
       /\ (SubModelCall /\ subStep' = subStep + 1)
          => StepShape(SubSeq(subHist', Len(subHist) + 1, Len(subHist')), subLast'.resp)
       /\ Alternates(history') /\ Alternates(subHist')]_vars

CreatedEntry(e) == e.role = "tool" /\ Len(e.content) >= 1 /\ e.content[1] = "Created task #"

\* C25: every invocation of run_agent starts with an empty task list and the
\* counter at 0; the first create_task of a run returns id 1, and the tasks a
\* run sees are those it created itself
C25_TaskStorageResets ==
    [][/\ pc' = "start" => tasks' = <<>> /\ task_counter' = 0
       /\ (/\ ModelCall /\ last'.kind = "exec" /\ last'.tool = "create_task"
           /\ \A k \in 1..Len(history) : ~CreatedEntry(history[k]))
          => history'[Len(history) + 2].content[2] = 1
       /\ Len(tasks') = Cardinality({k \in 1..Len(history') : CreatedEntry(history'[k])})]_vars

Incomplete(budget) == Returned(Str(<<"Task incomplete after steps", budget>>))

\* no response of the sub-agent's run so far carried a completion signal
NoSignal ==
    /\ ~HasMarker(subLast.resp) /\ ~ParsesToDone(subLast.resp)
    /\ \A k \in 1..Len(subHist) :
          subHist[k].role = "assistant" => ~ParsesToDone(subHist[k].content)

\* C26: a sub-agent's run makes at most as many model calls as its own budget and
\* never raises to the parent; when it has ended and no response carried a
\* completion signal, it made exactly that many calls and returned the
\* incomplete message
C26_SubAgentBudget ==
    /\ subCalls <= SubBudget
    /\ subRet.exc = "none"
    /\ (pc = "subdone" /\ NoSignal)
       => subCalls = SubBudget /\ subRet = Incomplete(SubBudget)

Advises(rep, advice) == \E k \in 1..Len(rep.recommendations) : rep.recommendations[k] = advice

HasIssue(rep, categories) == \E k \in 1..Len(rep.issues) : rep.issues[k].category \in categories

\* C27: in every report the critical message is there exactly when some issue
\* is critical, the high message exactly when some issue is high, the security
\* advice exactly when the issues hold a hardcoded secret or an SQL-injection
\* pattern, the refactoring advice exactly when they hold a nesting-complexity
\* issue, and the documentation advice exactly when they hold a
\* missing-docstring issue.
C27_RecommendationsByPresence ==
    \A i \in Critics :
        crep[i].exc = "none"
        => /\ Advises(crep[i].val, "CRITICAL") <=> crep[i].val.severity_breakdown["critical"] > 0
           /\ Advises(crep[i].val, "HIGH") <=> crep[i].val.severity_breakdown["high"] > 0
           /\ Advises(crep[i].val, "Security")
                 <=> HasIssue(crep[i].val, {"secrets", "sql_injection"})
           /\ Advises(crep[i].val, "Refactoring") <=> HasIssue(crep[i].val, {"complexity"})
           /\ Advises(crep[i].val, "Documentation") <=> HasIssue(crep[i].val, {"documentation"})

HasReadablePython(dir) == \E k \in DOMAIN dir : dir[k].readable

\* C28: a reflection with a critic wired in and focus 'overall' or
\* 'code_quality' critiques at most five files, and when the directory holds
\* a readable Python file its report gives 'Files analyzed' of at least one
\* with the score, not 'No Python files found for analysis'.
C28_QualitySample ==
    (wreport # NoSection /\ wcritic /\ wfocus \in {"overall", "code_quality"})
    => /\ wreport.files <= SampleSize
       /\ HasReadablePython(wdir) => (wreport.section = "analyzed" /\ wreport.files >= 1)

\* the response holds a well-formed JSON action that names a tool of the registry
NamesAvailableTool(resp, tools) ==
    /\ <<"action">> \in DOMAIN clean_json(resp).val.v
    /\ Hashable(clean_json(resp).val.v[<<"action">>])
    /\ InRegistry(clean_json(resp).val.v[<<"action">>], tools)

RECURSIVE AllReflections(_)
AllReflections(entries) ==
    entries = <<>> \/ (IsReflection(Head(entries)) /\ AllReflections(Tail(entries)))

\* C29: a sub-agent step whose response holds both the marker TASK_COMPLETE:
\* and a JSON action naming an available tool ends the run with the response
\* text less the marker; the tool is not invoked (tasks and files stay as they
\* are) and no assistant or tool entry for the response joins the transcript.
C29_MarkerBeforeAction ==
    [][(SubModelCall /\ HasMarker(subLast'.resp) /\ NamesAvailableTool(subLast'.resp, subTools))
       => /\ pc' = "subdone"
          /\ subRet' = Returned(Str(Strip(RemoveMarker(subLast'.resp))))
          /\ fs' = fs /\ tasks' = tasks /\ task_counter' = task_counter
          /\ subTasks' = subTasks /\ subCounter' = subCounter
          /\ IsPrefix(subHist, subHist')
          /\ AllReflections(SubSeq(subHist', Len(subHist) + 1, Len(subHist')))]_vars

C29_Witness ==
    /\ pc = "subdone" /\ subLast.kind = "complete"
    /\ HasMarker(subLast.resp) /\ NamesAvailableTool(subLast.resp, subTools)

\* the critic's score of the content on disk
ScoreOnDisk(file) ==
    IF critique_code([id |-> 0, performed |-> 0], file.code, "path").exc = "none"
    THEN critique_code([id |-> 0, performed |-> 0], file.code, "path").val.quality_score
    ELSE -1

\* C30: in improve_code_iteratively the tracked score never decreases, at most
\* max_iterations rewrites are asked of the model and none once the score has
\* reached the threshold, and when the operation returns its summary the
\* content on disk is the accepted version, whose score is the Final Score.
C30_AcceptedVersionOnDisk ==
    [][/\ (ipc = "loop" => iscore' >= iscore)
       /\ irewrites' <= imax
       /\ (irewrites' > irewrites => iscore < Threshold)
       /\ (ipc' = "done" /\ iret' = "summary")
          => (ifile'.code = icontent' /\ ScoreOnDisk(ifile') = iscore')]_vars

====
